---- MODULE Spec2Model ----
(***************************************************************************)
(* Schema compilation engine and schema store of the Database Architect    *)
(* Agent frontend.                                                         *)
(*                                                                         *)
(* Text is modelled as a sequence of atoms.  An atom is a TLA+ string: a   *)
(* single character (identifiers and user strings are sequences of         *)
(* one-character atoms) or a literal fragment of a template of the source  *)
(* ("CREATE TABLE ", "NOT NULL", ...).  String concatenation is \o, and a  *)
(* line break is the atom "\n".                                            *)
(*                                                                         *)
(* Optional fields: a string-valued optional field that the source only    *)
(* tests for truthiness is the empty sequence when absent; an optional     *)
(* object or number is a sequence of length 0 or 1.                        *)
(***************************************************************************)
EXTENDS Integers, Sequences, FiniteSets, TLC

VARIABLES
    \* ---- schemaStore.ts: the zustand store
    schema,                 \* <<>> (null) or <<SchemaDefinition>>
    compiledSQL,
    compiledMermaid,
    isLoading,
    isGenerating,
    error,                  \* <<>> (null) or <<message>>
    selectedTableId,        \* 0 (null) or an id
    selectedRelationshipId, \* 0 (null) or an id
    userPrompt,
    \* ---- PromptInput component and the requests it has in flight
    dialect,                \* PromptInput's useState<SQLDialect>
    inflight,               \* number of generateSchema requests awaiting a response
    \* ---- environment
    now,                    \* logical clock read by new Date(): one tick per task
    \* ---- direct use of the two compilers on one schema value
    input,                  \* the schema value handed to the compilers
    pc,                     \* "idle" | "new" | "once" | "twice"
    sql1, sql2,             \* results of the first and second compileSQL(input)
    mermaid1, mermaid2      \* results of the first and second compileMermaid(input)

vars == <<schema, compiledSQL, compiledMermaid, isLoading, isGenerating, error,
          selectedTableId, selectedRelationshipId, userPrompt, dialect, inflight,
          now, input, pc, sql1, sql2, mermaid1, mermaid2>>

storeVars == <<schema, compiledSQL, compiledMermaid, isLoading, isGenerating, error,
               selectedTableId, selectedRelationshipId, userPrompt, dialect, inflight>>

compilerVars == <<input, pc, sql1, sql2, mermaid1, mermaid2>>

-----------------------------------------------------------------------------
(* Bounds of the model *)

\* the logical clock stops here: at most MaxTime tasks run
MaxTime == 5
\* at most this many generateSchema requests are in flight at once
MaxInflight == 2
\* columns of the table in the column-centred input schemas
MaxCols == 2
\* foreign keys in the relationship-centred input schemas
MaxFks == 2
\* relationships in the relationship-centred input schemas
MaxRels == 1

-----------------------------------------------------------------------------
(* Strings *)

RECURSIVE Join(_, _)
\* Array.prototype.join: the texts of parts separated by sep
Join(parts, sep) ==
    IF Len(parts) = 0 THEN <<>>
    ELSE IF Len(parts) = 1 THEN parts[1]
    ELSE parts[1] \o sep \o Join(Tail(parts), sep)

\* Array.prototype.map over a sequence
Map(s, F(_)) == [i \in 1..Len(s) |-> F(s[i])]

\* Array.prototype.filter
Filter(s, P(_)) == SelectSeq(s, P)

\* the elements of a sequence
Range(s) == {s[i] : i \in 1..Len(s)}

NL == <<"\n">>

Whitespace == {" ", "  ", "\n", "\t"}

\* String.prototype.trim() leaves a non-empty string
TrimNonEmpty(text) == \E i \in 1..Len(text) : text[i] \notin Whitespace

LowerLetters == {"a","b","c","d","e","f","g","h","i","j","k","l","m",
                 "n","o","p","q","r","s","t","u","v","w","x","y","z"}
UpperLetters == {"A","B","C","D","E","F","G","H","I","J","K","L","M",
                 "N","O","P","Q","R","S","T","U","V","W","X","Y","Z"}
Digits == {"0","1","2","3","4","5","6","7","8","9"}

\* String.prototype.toUpperCase on one character
toUpperChar(c) ==
    LET upper == <<"A","B","C","D","E","F","G","H","I","J","K","L","M",
                   "N","O","P","Q","R","S","T","U","V","W","X","Y","Z">>
        lower == <<"a","b","c","d","e","f","g","h","i","j","k","l","m",
                   "n","o","p","q","r","s","t","u","v","w","x","y","z">>
    IN  IF c \in LowerLetters THEN upper[CHOOSE i \in 1..26 : lower[i] = c] ELSE c

toUpperCase(str) == [i \in 1..Len(str) |-> toUpperChar(str[i])]

\* String.prototype.includes
includes(str, search) ==
    \E i \in 1..(Len(str) - Len(search) + 1) : SubSeq(str, i, i + Len(search) - 1) = search

\* Date.prototype.toISOString of the instant t (milliseconds after the epoch)
toISOString(t) == <<"1970-01-01T00:00:00.00", ToString(t), "Z">>

\* new Date(): the current instant
Date_now == now

-----------------------------------------------------------------------------
(* sqlCompiler.ts *)

\* Type mapping for different SQL dialects
typeMapping ==
    [postgresql |->
        [integer |-> "INTEGER", bigint |-> "BIGINT", smallint |-> "SMALLINT",
         serial |-> "SERIAL", bigserial |-> "BIGSERIAL", varchar |-> "VARCHAR",
         text |-> "TEXT", char |-> "CHAR", boolean |-> "BOOLEAN", date |-> "DATE",
         timestamp |-> "TIMESTAMP", timestamptz |-> "TIMESTAMPTZ", time |-> "TIME",
         decimal |-> "DECIMAL", numeric |-> "NUMERIC", float |-> "REAL",
         double |-> "DOUBLE PRECISION", json |-> "JSON", jsonb |-> "JSONB",
         uuid |-> "UUID", blob |-> "BYTEA", enum |-> "VARCHAR"],
     mysql |->
        [integer |-> "INT", bigint |-> "BIGINT", smallint |-> "SMALLINT",
         serial |-> "INT AUTO_INCREMENT", bigserial |-> "BIGINT AUTO_INCREMENT",
         varchar |-> "VARCHAR", text |-> "TEXT", char |-> "CHAR",
         boolean |-> "TINYINT(1)", date |-> "DATE", timestamp |-> "TIMESTAMP",
         timestamptz |-> "TIMESTAMP", time |-> "TIME", decimal |-> "DECIMAL",
         numeric |-> "NUMERIC", float |-> "FLOAT", double |-> "DOUBLE",
         json |-> "JSON", jsonb |-> "JSON", uuid |-> "CHAR(36)", blob |-> "BLOB",
         enum |-> "ENUM"]]

\* the double-quote character
DQ == "\""
\* the backquote character U+0060 (a stand-in atom: the character itself cannot
\* be written in a string of this language)
BQ == "<backquote>"

\* quote(identifier)
quote(d, identifier) ==
    IF d = "postgresql" THEN <<DQ>> \o identifier \o <<DQ>>
    ELSE <<BQ>> \o identifier \o <<BQ>>

RECURSIVE escapeString(_)
\* every single quote of str doubled
escapeString(str) ==
    IF Len(str) = 0 THEN <<>>
    ELSE (IF Head(str) = "'" THEN <<"'", "'">> ELSE <<Head(str)>>)
         \o escapeString(Tail(str))

\* the qualified table name computed in generateTable, generateIndexes and
\* generateForeignKeys
tableName(d, table) ==
    IF Len(table.schema) > 0
    THEN quote(d, table.schema) \o <<".">> \o quote(d, table.name)
    ELSE quote(d, table.name)

\* a header that stamps the time on the description line as well
generateHeaderStampedTwice(s) ==
    LET dialectName == IF s.dialect = "postgresql" THEN "PostgreSQL" ELSE "MySQL"
    IN  <<"-- ============================================">> \o NL
        \o <<"-- Database Schema: ">> \o s.name \o NL
        \o <<"-- Dialect: ", dialectName>> \o NL
        \o <<"-- Generated: ">> \o toISOString(Date_now) \o NL
        \o <<"-- Description: ">> \o toISOString(Date_now) \o NL
        \o <<"-- ============================================">>

generateHeader(s) ==
    LET dialectName == IF s.dialect = "postgresql" THEN "PostgreSQL" ELSE "MySQL"
    IN  <<"-- ============================================">> \o NL
        \o <<"-- Database Schema: ">> \o s.name \o NL
        \o <<"-- Dialect: ", dialectName>> \o NL
        \o <<"-- Generated: ">> \o toISOString(Date_now) \o NL
        \o <<"-- Description: ">>
        \o (IF Len(s.description) > 0 THEN s.description
            ELSE <<"Auto-generated schema">>) \o NL
        \o <<"-- ============================================">>

RECURSIVE Dedup(_, _)
\* the elements of s not in seen, each once, in order of first occurrence
\* (insertion order of a Set)
Dedup(s, seen) ==
    IF Len(s) = 0 THEN <<>>
    ELSE IF Head(s) \in seen THEN Dedup(Tail(s), seen)
    ELSE <<Head(s)>> \o Dedup(Tail(s), seen \cup {Head(s)})

generateSchemaStatements(s) ==
    LET named == Filter(s.tables,
                        LAMBDA t : Len(t.schema) > 0 /\ t.schema # <<"p","u","b","l","i","c">>)
        schemas == Dedup(Map(named, LAMBDA t : t.schema), {})
    IN  IF Len(schemas) = 0 THEN <<>>
        ELSE Join(Map(schemas, LAMBDA n :
                        <<"CREATE SCHEMA IF NOT EXISTS ">> \o quote(s.dialect, n) \o <<";">>),
                  NL)

\* the enum values, each single-quoted, joined by comma and space
enumValueList(col) ==
    Join(Map(col.enumValues, LAMBDA v : <<"'">> \o v \o <<"'">>), <<", ">>)

\* the enum type name: table name, column name and enum joined by underscores
enumTypeName(table, col) ==
    table.name \o <<"_">> \o col.name \o <<"_", "e", "n", "u", "m">>

RECURSIVE Flatten(_)
\* the concatenation of a sequence of sequences
Flatten(ss) == IF Len(ss) = 0 THEN <<>> ELSE Head(ss) \o Flatten(Tail(ss))

generateEnumTypes(s) ==
    LET ofTable(table) ==
            Map(Filter(table.columns,
                       LAMBDA col : col.type = "enum" /\ Len(col.enumValues) > 0),
                LAMBDA col : <<"CREATE TYPE ">> \o enumTypeName(table, col)
                             \o <<" AS ENUM (">> \o enumValueList(col) \o <<");">>)
        enums == Flatten(Map(s.tables, ofTable))
    IN  IF Len(enums) > 0 THEN <<"-- Enum Types">> \o NL \o Join(enums, NL)
        ELSE <<>>

\* `x || dflt` on an optional number: 0 and undefined are both falsy
OrDefault(opt, dflt) == IF Len(opt) = 0 \/ opt[1] = 0 THEN dflt ELSE opt[1]

getColumnType(d, column, table) ==
    LET baseType == typeMapping[d][column.type]
    IN  IF column.type = "varchar" \/ column.type = "char"
        THEN <<baseType, "(", ToString(OrDefault(column.length, 255)), ")">>
        ELSE IF column.type = "decimal" \/ column.type = "numeric"
        THEN <<baseType, "(", ToString(OrDefault(column.precision, 10)), ", ",
               ToString(OrDefault(column.scale, 2)), ")">>
        ELSE IF column.type = "enum"
        THEN IF d = "postgresql" THEN enumTypeName(table, column)
             ELSE <<"ENUM(">> \o enumValueList(column) \o <<")">>
        ELSE <<baseType>>

\* the markers formatDefaultValue looks for, as characters
SQLFunctionMarkers ==
    { <<"C","U","R","R","E","N","T","_","T","I","M","E","S","T","A","M","P">>,
      <<"N","O","W","(",")">>,
      <<"U","U","I","D">> }

\* a test for the markers that does not fold the case of value
IsSQLFunctionCaseSensitive(value) ==
    \E marker \in SQLFunctionMarkers : includes(value, marker)

\* value.toUpperCase().includes(marker) for one of the three markers
IsSQLFunction(value) ==
    \E marker \in SQLFunctionMarkers : includes(toUpperCase(value), marker)

formatDefaultValue(d, column) ==
    LET value == column.defaultValue
    IN  IF value.kind = "null" THEN <<"NULL">>
        ELSE IF value.kind = "boolean"
        THEN IF d = "mysql" THEN (IF value.val = <<"true">> THEN <<"1">> ELSE <<"0">>)
             ELSE (IF value.val = <<"true">> THEN <<"TRUE">> ELSE <<"FALSE">>)
        ELSE IF value.kind = "number" THEN <<ToString(value.num)>>
        ELSE IF value.kind = "string"
        THEN IF IsSQLFunction(value.val) THEN value.val
             ELSE <<"'">> \o escapeString(value.val) \o <<"'">>
        ELSE <<"undefined">>

\* constraint clauses that repeat NOT NULL and UNIQUE on primary-key columns
constraintPartsRedundant(column) ==
    (IF ~column.isNullable THEN << <<"NOT NULL">> >> ELSE <<>>)
    \o (IF column.isUnique THEN << <<"UNIQUE">> >> ELSE <<>>)

\* the NOT NULL and UNIQUE parts of generateColumn
constraintParts(column) ==
    (IF ~column.isNullable /\ ~column.isPrimaryKey THEN << <<"NOT NULL">> >> ELSE <<>>)
    \o (IF column.isUnique /\ ~column.isPrimaryKey THEN << <<"UNIQUE">> >> ELSE <<>>)

generateColumn(d, column, table) ==
    LET parts ==
            << <<"  ">> \o quote(d, column.name), getColumnType(d, column, table) >>
            \o constraintParts(column)
            \o (IF column.defaultValue.kind # "undefined" /\ column.defaultValue.kind # "null"
                THEN << <<"DEFAULT ">> \o formatDefaultValue(d, column) >> ELSE <<>>)
    IN  Join(parts, <<" ">>)

generateTable(d, table) ==
    LET tname == tableName(d, table)
        pkColumns == Filter(table.columns, LAMBDA c : c.isPrimaryKey)
        columnDefs ==
            Map(table.columns, LAMBDA col : generateColumn(d, col, table))
            \o (IF Len(pkColumns) > 0
                THEN << <<"  PRIMARY KEY (">>
                        \o Join(Map(pkColumns, LAMBDA c : quote(d, c.name)), <<", ">>)
                        \o <<")">> >>
                ELSE <<>>)
        lines ==
            (IF Len(table.comment) > 0 THEN << <<"-- ">> \o table.comment >> ELSE <<>>)
            \o << <<"CREATE TABLE ">> \o tname \o <<" (">> >>
            \o << Join(columnDefs, <<",">> \o NL) >>
            \o << <<")">>
                  \o (IF d = "mysql" THEN <<" ENGINE=InnoDB DEFAULT CHARSET=utf8mb4">> ELSE <<>>)
                  \o <<";">> >>
            \o (IF d = "postgresql"
                THEN (IF Len(table.comment) > 0
                      THEN << <<"COMMENT ON TABLE ">> \o tname \o <<" IS '">>
                              \o escapeString(table.comment) \o <<"';">> >>
                      ELSE <<>>)
                     \o Map(Filter(table.columns, LAMBDA col : Len(col.comment) > 0),
                            LAMBDA col : <<"COMMENT ON COLUMN ">> \o tname \o <<".">>
                                         \o quote(d, col.name) \o <<" IS '">>
                                         \o escapeString(col.comment) \o <<"';">>)
                ELSE <<>>)
    IN  Join(lines, NL)

\* the tables in reverse order
generateTablesReversed(s) ==
    LET n == Len(s.tables)
        tables == [i \in 1..n |-> generateTable(s.dialect, s.tables[n + 1 - i])]
    IN  <<"-- Tables">> \o NL \o Join(tables, NL \o NL)

generateTables(s) ==
    LET tables == Map(s.tables, LAMBDA table : generateTable(s.dialect, table))
    IN  <<"-- Tables">> \o NL \o Join(tables, NL \o NL)

\* String.prototype.toUpperCase on an index method tag
indexTypeUpper(type) ==
    CASE type = "btree" -> "BTREE" [] type = "hash" -> "HASH"
      [] type = "gin" -> "GIN" [] type = "gist" -> "GIST"

generateIndexes(s) ==
    LET d == s.dialect
        ofTable(table) ==
            Map(table.indexes, LAMBDA index :
                <<"CREATE ">> \o (IF index.isUnique THEN <<"UNIQUE ">> ELSE <<>>)
                \o <<"INDEX ">> \o quote(d, index.name) \o <<" ON ">> \o tableName(d, table)
                \o (IF d = "postgresql" /\ Len(index.type) > 0 /\ index.type # <<"btree">>
                    THEN <<" USING ", indexTypeUpper(index.type[1])>> ELSE <<>>)
                \o <<" (">> \o Join(Map(index.columns, LAMBDA c : quote(d, c)), <<", ">>)
                \o <<");">>)
        indexes == Flatten(Map(s.tables, ofTable))
    IN  IF Len(indexes) > 0 THEN <<"-- Indexes">> \o NL \o Join(indexes, NL)
        ELSE <<>>

generateForeignKeys(s) ==
    LET d == s.dialect
        ofTable(table) ==
            Map(table.foreignKeys, LAMBDA fk :
                <<"ALTER TABLE ">> \o tableName(d, table) \o NL
                \o <<"  ADD CONSTRAINT ">> \o quote(d, fk.constraintName) \o NL
                \o <<"  FOREIGN KEY (">> \o quote(d, fk.columnName) \o <<")">> \o NL
                \o <<"  REFERENCES ">> \o quote(d, fk.referencedTable) \o <<" (">>
                \o quote(d, fk.referencedColumn) \o <<")">> \o NL
                \o <<"  ON DELETE ">> \o fk.onDelete
                \o (IF Len(fk.onUpdate) > 0 THEN <<" ON UPDATE ">> \o fk.onUpdate ELSE <<>>)
                \o <<";">>)
        fks == Flatten(Map(s.tables, ofTable))
    IN  IF Len(fks) > 0
        THEN <<"-- Foreign Key Constraints">> \o NL \o Join(fks, NL \o NL)
        ELSE <<>>

\* a selection that takes every relationship with a junction descriptor
junctionRelationshipsAnyCardinality(s) ==
    Filter(s.relationships, LAMBDA r : Len(r.junctionTable) > 0)

\* the relationships generateJunctionTables emits a table for
junctionRelationships(s) ==
    Filter(s.relationships,
           LAMBDA r : r.cardinality = "many-to-many" /\ Len(r.junctionTable) > 0)

generateJunctionTables(s) ==
    LET d == s.dialect
        int == IF d = "postgresql" THEN "INTEGER" ELSE "INT"
        selected == junctionRelationships(s)
        junctions ==
            Map(selected, LAMBDA rel :
                LET jt == rel.junctionTable[1]
                IN  <<"-- Junction table for ">> \o rel.sourceTable \o <<" <-> ">>
                    \o rel.targetTable \o NL
                    \o <<"CREATE TABLE ">> \o quote(d, jt.name) \o <<" (">> \o NL
                    \o <<"  ">> \o quote(d, jt.sourceColumn) \o <<" ", int, " ", "NOT NULL", ",">> \o NL
                    \o <<"  ">> \o quote(d, jt.targetColumn) \o <<" ", int, " ", "NOT NULL", ",">> \o NL
                    \o <<"  created_at TIMESTAMP DEFAULT ", "CURRENT_TIMESTAMP", ",">> \o NL
                    \o <<"  PRIMARY KEY (">> \o quote(d, jt.sourceColumn) \o <<", ">>
                    \o quote(d, jt.targetColumn) \o <<")", ",">> \o NL
                    \o <<"  FOREIGN KEY (">> \o quote(d, jt.sourceColumn) \o <<")", " REFERENCES ">>
                    \o quote(d, rel.sourceTable) \o <<" (">> \o quote(d, rel.sourceColumn)
                    \o <<")", " ON DELETE ", "CASCADE", ",">> \o NL
                    \o <<"  FOREIGN KEY (">> \o quote(d, jt.targetColumn) \o <<")", " REFERENCES ">>
                    \o quote(d, rel.targetTable) \o <<" (">> \o quote(d, rel.targetColumn)
                    \o <<")", " ON DELETE ", "CASCADE">> \o NL
                    \o <<")">>
                    \o (IF d = "mysql" THEN <<" ENGINE=InnoDB DEFAULT CHARSET=utf8mb4">> ELSE <<>>)
                    \o <<";">>)
    IN  IF Len(junctions) > 0
        THEN <<"-- Junction Tables (Many-to-Many)">> \o NL \o Join(junctions, NL \o NL)
        ELSE <<>>

generatePostgresFunction(proc) ==
    LET params ==
            Join(Map(proc.parameters, LAMBDA p :
                    p.name \o <<" ">>
                    \o (IF p.direction # "IN" THEN <<p.direction, " ">> ELSE <<>>)
                    \o <<typeMapping.postgresql[p.type]>>),
                 <<", ">>)
        returnType ==
            IF Len(proc.returnType) > 0
            THEN IF proc.returnType[1] = "void" THEN "VOID"
                 ELSE IF proc.returnType[1] = "table" THEN "TABLE"
                 ELSE typeMapping.postgresql[proc.returnType[1]]
            ELSE "VOID"
        language == IF Len(proc.language) > 0 THEN proc.language ELSE <<"plpgsql">>
    IN  <<"-- ">> \o (IF Len(proc.comment) > 0 THEN proc.comment ELSE proc.name) \o NL
        \o <<"CREATE OR REPLACE FUNCTION ">> \o quote("postgresql", proc.name)
        \o <<"(">> \o params \o <<")">> \o NL
        \o <<"RETURNS ", returnType>> \o NL
        \o <<"LANGUAGE ">> \o language \o NL
        \o <<"AS $$">> \o NL
        \o proc.body \o NL
        \o <<"$$;">>

generateMySQLProcedure(proc) ==
    LET params ==
            Join(Map(proc.parameters, LAMBDA p :
                    <<p.direction, " ">> \o p.name \o <<" ", typeMapping.mysql[p.type]>>),
                 <<", ">>)
    IN  <<"-- ">> \o (IF Len(proc.comment) > 0 THEN proc.comment ELSE proc.name) \o NL
        \o <<"DELIMITER //">> \o NL
        \o <<"CREATE PROCEDURE ">> \o quote("mysql", proc.name)
        \o <<"(">> \o params \o <<")">> \o NL
        \o <<"BEGIN">> \o NL
        \o proc.body \o NL
        \o <<"END //">> \o NL
        \o <<"DELIMITER ;">>

generateStoredProcedures(s) ==
    IF Len(s.storedProcedures) = 0 THEN <<>>
    ELSE LET procs == Map(s.storedProcedures, LAMBDA proc :
                            IF s.dialect = "postgresql" THEN generatePostgresFunction(proc)
                            ELSE generateMySQLProcedure(proc))
         IN  <<"-- Stored Procedures and Functions">> \o NL \o Join(procs, NL \o NL)

\* the sections with the foreign-key constraints ahead of the tables
compileSectionsConstraintsFirst(s) ==
    LET pg == s.dialect = "postgresql"
        opt(section) == IF Len(section) > 0 THEN <<section>> ELSE <<>>
    IN  <<generateHeader(s)>>
        \o (IF pg /\ \E i \in 1..Len(s.tables) : Len(s.tables[i].schema) > 0
            THEN <<generateSchemaStatements(s)>> ELSE <<>>)
        \o (IF pg THEN opt(generateEnumTypes(s)) ELSE <<>>)
        \o opt(generateForeignKeys(s))
        \o <<generateTables(s)>>
        \o opt(generateIndexes(s))
        \o opt(generateJunctionTables(s))
        \o opt(generateStoredProcedures(s))

\* the sections pushed by SQLCompiler.compile, before the final filter
compileSections(s) ==
    LET pg == s.dialect = "postgresql"
        opt(section) == IF Len(section) > 0 THEN <<section>> ELSE <<>>
    IN  <<generateHeader(s)>>
        \o (IF pg /\ \E i \in 1..Len(s.tables) : Len(s.tables[i].schema) > 0
            THEN <<generateSchemaStatements(s)>> ELSE <<>>)
        \o (IF pg THEN opt(generateEnumTypes(s)) ELSE <<>>)
        \o <<generateTables(s)>>
        \o opt(generateIndexes(s))
        \o opt(generateForeignKeys(s))
        \o opt(generateJunctionTables(s))
        \o opt(generateStoredProcedures(s))

\* SQLCompiler.compile
SQLCompiler_compile(s) == Join(Filter(compileSections(s), TrimNonEmpty), NL \o NL)

\* Convenience function
compileSQL(s) == SQLCompiler_compile(s)

-----------------------------------------------------------------------------
(* mermaidCompiler.ts *)

\* Mermaid ER relationship notation
cardinalityMapping ==
    [c \in {"one-to-one", "one-to-many", "many-to-many"} |->
        CASE c = "one-to-one"   -> [left |-> "||", right |-> "||"]
          [] c = "one-to-many"  -> [left |-> "||", right |-> "o{"]
          [] c = "many-to-many" -> [left |-> "}o", right |-> "o{"]]

\* name.replace(/[^a-zA-Z0-9_]/g, '_')
sanitizeName(name) ==
    [i \in 1..Len(name) |->
        IF name[i] \in LowerLetters \cup UpperLetters \cup Digits \cup {"_"}
        THEN name[i] ELSE "_"]

\* name.replace(/[^a-zA-Z0-9_ ]/g, '_')
sanitizeRelationName(name) ==
    [i \in 1..Len(name) |->
        IF name[i] \in LowerLetters \cup UpperLetters \cup Digits \cup {"_", " "}
        THEN name[i] ELSE "_"]

generateRelationName(source, target) == source \o <<"_", "t", "o", "_">> \o target

\* typeMap[column.type] || column.type
mapColumnType(column) ==
    IF column.type = "integer" THEN "int" ELSE column.type

generateColumnLine(column) ==
    LET markers == (IF column.isPrimaryKey THEN << <<"PK">> >> ELSE <<>>)
                   \o (IF column.isUnique /\ ~column.isPrimaryKey THEN << <<"UK">> >> ELSE <<>>)
        markerStr == IF Len(markers) > 0
                     THEN <<" ", DQ>> \o Join(markers, <<",">>) \o <<DQ>> ELSE <<>>
    IN  <<mapColumnType(column), " ">> \o sanitizeName(column.name) \o markerStr

\* the lines of one entity block
generateTableDefinition(table) ==
    << <<"    ">> \o sanitizeName(table.name) \o <<" {">> >>
    \o Map(table.columns, LAMBDA col : <<"        ">> \o generateColumnLine(col))
    \o << <<"    }">> >>

generateRelationship(rel) ==
    LET m == cardinalityMapping[rel.cardinality]
        relationName == IF Len(rel.name) > 0 THEN sanitizeRelationName(rel.name)
                        ELSE generateRelationName(rel.sourceTable, rel.targetTable)
    IN  <<"    ">> \o sanitizeName(rel.sourceTable) \o <<" ", m.left, "--", m.right, " ">>
        \o sanitizeName(rel.targetTable) \o <<" : ", DQ>> \o relationName \o <<DQ>>

\* the key under which existingRels records the pair (source, target)
relKeyOf(source, target) == source \o <<"-">> \o target

\* the (owning table name, referenced table name) pairs of all foreign keys, in
\* the order the nested forEach visits them
fkPairs(s) ==
    Flatten(Map(s.tables, LAMBDA table :
        Map(table.foreignKeys, LAMBDA fk : [owner |-> table.name, ref |-> fk.referencedTable])))

RECURSIVE implicitFold(_, _)
\* the body of the nested forEach of generateImplicitRelationships, run over the
\* remaining pairs with the current contents of existingRels
implicitFold(pairs, existingRels) ==
    IF Len(pairs) = 0 THEN <<>>
    ELSE LET p == Head(pairs)
             relKey == relKeyOf(p.owner, p.ref)
             reverseKey == relKeyOf(p.ref, p.owner)
         IN  IF relKey \notin existingRels /\ reverseKey \notin existingRels
             THEN << <<"    ">> \o sanitizeName(p.ref) \o <<" ", "||", "--", "o{", " ">>
                     \o sanitizeName(p.owner) \o <<" : ", DQ>>
                     \o <<"h", "a", "s", "_">> \o p.owner \o <<DQ>> >>
                  \o implicitFold(Tail(pairs), existingRels \cup {relKey})
             ELSE implicitFold(Tail(pairs), existingRels)

generateImplicitRelationships(s) ==
    implicitFold(fkPairs(s),
                 {relKeyOf(s.relationships[i].sourceTable, s.relationships[i].targetTable) :
                    i \in 1..Len(s.relationships)})

\* diagram lines whose column types are the SQL types of the schema's dialect
mermaidLinesSqlTypes(s) ==
    << <<"erDiagram">> >>
    \o Flatten(Map(s.tables, LAMBDA table :
          << <<"    ">> \o sanitizeName(table.name) \o <<" {">> >>
          \o Map(table.columns, LAMBDA col :
                <<"        ", typeMapping[s.dialect][col.type], " ">> \o sanitizeName(col.name))
          \o << <<"    }">> >>))
    \o Map(s.relationships, generateRelationship)
    \o generateImplicitRelationships(s)

\* the lines pushed by MermaidCompiler.compile
mermaidLines(s) ==
    << <<"erDiagram">> >>
    \o Flatten(Map(s.tables, generateTableDefinition))
    \o Map(s.relationships, generateRelationship)
    \o generateImplicitRelationships(s)

\* MermaidCompiler.compile
MermaidCompiler_compile(s) == Join(mermaidLines(s), NL)

\* Convenience function
compileMermaid(s) == MermaidCompiler_compile(s)

-----------------------------------------------------------------------------
(* types.ts: values of the intermediate representation used as inputs *)

\* column.defaultValue: undefined, null, or a value with its JavaScript type
\* (val holds the characters of a string or the word of a boolean, num a number)
Undefined == [kind |-> "undefined", val |-> <<>>, num |-> 0]
Null == [kind |-> "null", val |-> <<>>, num |-> 0]
StringValue(v) == [kind |-> "string", val |-> v, num |-> 0]
BooleanValue(b) == [kind |-> "boolean", val |-> <<b>>, num |-> 0]
NumberValue(n) == [kind |-> "number", val |-> <<>>, num |-> n]

\* ColumnDefinition
Column(id, name, type, pk, nullable, unique, dflt) ==
    [id |-> id, name |-> name, type |-> type,
     length |-> <<>>, precision |-> <<>>, scale |-> <<>>,
     isPrimaryKey |-> pk, isNullable |-> nullable, isUnique |-> unique,
     defaultValue |-> dflt, enumValues |-> <<>>, comment |-> <<>>]

\* ForeignKeyDefinition
ForeignKey(id, refTable) ==
    [id |-> id, constraintName |-> <<"f", "k">>, columnName |-> <<"r", "e", "f">>,
     referencedTable |-> refTable, referencedColumn |-> <<"i", "d">>,
     onDelete |-> <<"CASCADE">>, onUpdate |-> <<>>]

\* TableDefinition
Table(id, name, columns, fks) ==
    [id |-> id, name |-> name, schema |-> <<>>, columns |-> columns,
     indexes |-> <<>>, foreignKeys |-> fks, comment |-> <<>>]

\* RelationshipDefinition
Relationship(id, name, src, tgt, card, junction) ==
    [id |-> id, name |-> name, sourceTable |-> src, sourceColumn |-> <<"i", "d">>,
     targetTable |-> tgt, targetColumn |-> <<"i", "d">>, cardinality |-> card,
     onDelete |-> <<"CASCADE">>, junctionTable |-> junction]

\* SchemaDefinition
Schema(id, d, tables, rels, procs) ==
    [id |-> id, name |-> <<"S">>, description |-> <<>>, dialect |-> d,
     tables |-> tables, relationships |-> rels, storedProcedures |-> procs,
     createdAt |-> 0, updatedAt |-> 0]

Dialects == {"postgresql", "mysql"}

\* all sequences over S of length at most n
SeqUpTo(S, n) == UNION {[1..k -> S] : k \in 0..n}

idColumn == Column(1, <<"i", "d">>, "serial", TRUE, FALSE, FALSE, Undefined)

\* ---- column-centred inputs: one table whose columns take every combination
\* of the primary-key, nullable and unique flags and of an absent or null
\* default
ColumnNames == << <<"x">>, <<"y">>, <<"z">>, <<"w">> >>

ColumnShapes ==
    {[pk |-> pk, nullable |-> nu, unique |-> un, dflt |-> df] :
        pk \in BOOLEAN, nu \in BOOLEAN, un \in BOOLEAN,
        df \in {Undefined, Null}}

ColumnInputs ==
    {Schema(1, d, << Table(1, <<"t">>,
                           [i \in 1..Len(shapes) |->
                               Column(i, ColumnNames[i], "integer", shapes[i].pk,
                                      shapes[i].nullable, shapes[i].unique, shapes[i].dflt)],
                           <<>>) >>,
            <<>>, <<>>) :
        d \in Dialects, shapes \in SeqUpTo(ColumnShapes, MaxCols)}

\* ---- relationship-centred inputs: tables that reference one another through
\* foreign keys and explicit relationships
N_a == <<"a">>
N_bc == <<"b", "-", "c">>
N_ab == <<"a", "-", "b">>
N_c == <<"c">>

TableOrders ==
    { <<>>, <<N_a>>, <<N_a, N_bc>>, <<N_bc, N_a>>,
      <<N_c, N_ab, N_bc, N_a>> }

\* (owning table, referenced table) of a foreign key
FkEnds == { <<N_a, N_bc>>, <<N_bc, N_a>>, <<N_c, N_ab>> }

\* (source table, target table) of an explicit relationship
RelEnds == { <<N_a, N_bc>>, <<N_bc, N_a>>, <<N_ab, N_c>> }

\* the junction descriptor of a relationship between src and tgt
Junction(src, tgt) ==
    [name |-> src \o <<"_">> \o tgt,
     sourceColumn |-> src \o <<"_", "i", "d">>,
     targetColumn |-> tgt \o <<"_", "i", "d">>]

RelShapes ==
    {[ends |-> e, card |-> k.card, junction |-> k.junction] :
        e \in RelEnds,
        k \in {[card |-> "one-to-one", junction |-> FALSE],
               [card |-> "one-to-many", junction |-> FALSE],
               [card |-> "many-to-many", junction |-> FALSE],
               [card |-> "many-to-many", junction |-> TRUE]}}

\* the foreign keys, among fks, that table name owns
FksOf(name, fks) ==
    LET mine == SelectSeq([i \in 1..Len(fks) |-> [n |-> i, e |-> fks[i]]],
                          LAMBDA f : f.e[1] = name)
    IN  [i \in 1..Len(mine) |-> ForeignKey(mine[i].n, mine[i].e[2])]

\* the invariant of the data model: table names are unique, and every
\* relationship end and every referenced table names a table of the schema
WellFormed(s) ==
    LET names == {s.tables[i].name : i \in 1..Len(s.tables)}
    IN  /\ \A i, j \in 1..Len(s.tables) : s.tables[i].name = s.tables[j].name => i = j
        /\ \A i \in 1..Len(s.relationships) :
              /\ s.relationships[i].sourceTable \in names
              /\ s.relationships[i].targetTable \in names
        /\ \A i \in 1..Len(s.tables) : \A k \in 1..Len(s.tables[i].foreignKeys) :
              s.tables[i].foreignKeys[k].referencedTable \in names

RelationCandidates ==
    {Schema(1, d,
            [i \in 1..Len(order) |->
                Table(i, order[i], <<idColumn>>, FksOf(order[i], fks))],
            [i \in 1..Len(rels) |->
                Relationship(i, IF rels[i].card = "one-to-one" THEN <<>> ELSE <<"r">>,
                             rels[i].ends[1], rels[i].ends[2], rels[i].card,
                             IF rels[i].junction
                             THEN <<Junction(rels[i].ends[1], rels[i].ends[2])>>
                             ELSE <<>>)],
            <<>>) :
        d \in Dialects, order \in TableOrders,
        fks \in SeqUpTo(FkEnds, MaxFks), rels \in SeqUpTo(RelShapes, MaxRels)}

RelationInputs == {s \in RelationCandidates : WellFormed(s)}

\* ---- hand-written inputs that exercise the remaining sections: a namespace
\* qualifier, an enum column, comments, an index and a stored procedure
BlogUsers == Table(1, <<"u", "s", "e", "r", "s">>, <<idColumn>>, <<>>)

RichTable ==
    [id |-> 2, name |-> <<"p">>, schema |-> <<"n", "s">>,
     columns |-> << idColumn,
                    [Column(2, <<"k">>, "enum", FALSE, TRUE, FALSE, Undefined)
                        EXCEPT !.enumValues = << <<"u">>, <<"v">> >>,
                               !.comment = <<"c">>],
                    [Column(3, <<"n">>, "varchar", FALSE, FALSE, TRUE,
                            StringValue(<<"O", "'", "B">>))
                        EXCEPT !.length = <<40>>],
                    Column(4, <<"b">>, "boolean", FALSE, FALSE, FALSE,
                           BooleanValue("true")),
                    Column(5, <<"m">>, "timestamp", FALSE, TRUE, FALSE,
                           StringValue(<<"C","U","R","R","E","N","T","_","T","I","M","E","S","T","A","M","P">>)) >>,
     indexes |-> << [id |-> 1, name |-> <<"i", "x">>, columns |-> << <<"n">> >>,
                     isUnique |-> TRUE, type |-> <<"hash">>] >>,
     foreignKeys |-> << [ForeignKey(1, <<"u", "s", "e", "r", "s">>)
                            EXCEPT !.onUpdate = <<"SET NULL">>] >>,
     comment |-> <<"c">>]

RichProcedure ==
    [id |-> 1, name |-> <<"f">>,
     parameters |-> << [name |-> <<"a">>, type |-> "integer", direction |-> "IN"],
                       [name |-> <<"b">>, type |-> "text", direction |-> "OUT"] >>,
     returnType |-> <<"integer">>, body |-> <<"body">>, language |-> <<>>,
     comment |-> <<>>]

\* relationships of every kind side by side: two of them many-to-many with a
\* junction descriptor, one many-to-many without, one one-to-many with
MixedRelationships ==
    << Relationship(1, <<"r">>, N_a, N_bc, "one-to-many", <<Junction(N_a, N_a)>>),
       Relationship(2, <<"r">>, N_a, N_bc, "many-to-many", <<Junction(N_a, N_bc)>>),
       Relationship(3, <<>>, N_bc, N_a, "many-to-many", <<>>),
       Relationship(4, <<"r">>, N_bc, N_a, "many-to-many", <<Junction(N_bc, N_a)>>),
       Relationship(5, <<>>, N_a, N_a, "one-to-one", <<>>) >>

RichInputs ==
    {Schema(1, d, tables, rels, procs) :
        d \in Dialects,
        tables \in { <<BlogUsers>>, <<BlogUsers, RichTable>> },
        rels \in { <<>>, << Relationship(1, <<"r">>, BlogUsers.name, BlogUsers.name,
                                         "many-to-many",
                                         <<Junction(BlogUsers.name, BlogUsers.name)>>) >> },
        procs \in { <<>>, <<RichProcedure>> }}
    \cup
    {Schema(1, d, << Table(1, N_a, <<idColumn>>, <<>>),
                    Table(2, N_bc, <<idColumn>>, <<ForeignKey(1, N_a)>>) >>,
            MixedRelationships, <<>>) :
        d \in Dialects}

\* ---- default-centred inputs: one table with one column that carries a
\* default of each JavaScript type
DefaultValues ==
    { BooleanValue("true"), BooleanValue("false"),
      NumberValue(0), NumberValue(42), NumberValue(-7),
      StringValue(<<>>), StringValue(<<"v">>), StringValue(<<"O", "'", "B">>),
      StringValue(<<"'", "'">>), StringValue(<<"n", "o", "w">>),
      StringValue(<<"N", "o", "w", "(", ")">>),
      StringValue(<<"g", "e", "n", "_", "u", "u", "i", "d", "(", ")">>),
      StringValue(<<"'", "U", "U", "I", "D", "'">>),
      StringValue(<<"C","U","R","R","E","N","T","_","T","I","M","E","S","T","A","M","P">>),
      StringValue(<<"c","u","r","r","e","n","t","_","t","i","m","e","s","t","a","m","p",
                    "(", "3", ")">>) }

DefaultInputs ==
    {Schema(1, d, << Table(1, <<"t">>,
                           << idColumn,
                              Column(2, <<"x">>, "text", FALSE, nu, FALSE, v) >>,
                           <<>>) >>,
            <<>>, <<>>) :
        d \in Dialects, nu \in BOOLEAN, v \in DefaultValues}

\* ---- type-centred inputs: one table with one column of a parametrized type,
\* its length, precision and scale absent, zero or positive
TypeParameters == { <<>>, <<0>>, <<12>> }

TypeInputs ==
    {Schema(1, d, << Table(1, <<"t">>,
                           << [Column(1, <<"x">>, type, FALSE, TRUE, FALSE, Undefined)
                                  EXCEPT !.length = length, !.precision = precision,
                                         !.scale = scale] >>,
                           <<>>) >>,
            <<>>, <<>>) :
        d \in Dialects, type \in {"varchar", "char", "decimal", "numeric"},
        length \in TypeParameters, precision \in TypeParameters, scale \in TypeParameters}

\* ---- enum-centred inputs: one table with one enum column whose list of
\* values is absent or empty, or has one or two values
EnumInputs ==
    {Schema(1, d, << Table(1, <<"t">>,
                           << [Column(1, <<"x">>, "enum", FALSE, TRUE, FALSE, Undefined)
                                  EXCEPT !.enumValues = values] >>,
                           <<>>) >>,
            <<>>, <<>>) :
        d \in Dialects, values \in { <<>>, << <<"u">> >>, << <<"u">>, <<"v">> >> }}

\* ---- namespace-centred inputs: a table with a foreign key to a table that
\* has a namespace qualifier or has none
QualifiedInputs ==
    {Schema(1, d,
            << [BlogUsers EXCEPT !.schema = ns],
               Table(2, <<"p">>, <<idColumn>>, <<ForeignKey(1, BlogUsers.name)>>) >>,
            <<>>, <<>>) :
        d \in Dialects, ns \in { <<>>, <<"n", "s">> }}

\* every schema value handed to the compilers
Inputs ==
    ColumnInputs \cup RelationInputs \cup RichInputs \cup DefaultInputs \cup TypeInputs
    \cup EnumInputs \cup QualifiedInputs

-----------------------------------------------------------------------------
(* Direct use of the compilers: compileSQL and compileMermaid are applied   *)
(* twice to one schema value; each application is one task.                 *)

InitCompile ==
    /\ input \in Inputs
    /\ pc = "new"
    /\ sql1 = <<>> /\ sql2 = <<>> /\ mermaid1 = <<>> /\ mermaid2 = <<>>
    /\ now = 0
    /\ schema = <<>> /\ compiledSQL = <<>> /\ compiledMermaid = <<>>
    /\ isLoading = FALSE /\ isGenerating = FALSE /\ error = <<>>
    /\ selectedTableId = 0 /\ selectedRelationshipId = 0
    /\ userPrompt = <<>> /\ dialect = "postgresql" /\ inflight = 0

CompileFirst ==
    /\ pc = "new"
    /\ sql1' = compileSQL(input)
    /\ mermaid1' = compileMermaid(input)
    /\ pc' = "once"
    /\ now' = now + 1
    /\ UNCHANGED <<input, sql2, mermaid2>>
    /\ UNCHANGED storeVars

CompileAgain ==
    /\ pc = "once"
    /\ sql2' = compileSQL(input)
    /\ mermaid2' = compileMermaid(input)
    /\ pc' = "twice"
    /\ now' = now + 1
    /\ UNCHANGED <<input, sql1, mermaid1>>
    /\ UNCHANGED storeVars

NextCompile == CompileFirst \/ CompileAgain

SpecCompile == InitCompile /\ [][NextCompile]_vars

-----------------------------------------------------------------------------
(* services/api.ts *)

\* What the generation endpoint can answer.  fetch rejects, or resolves to a
\* response with an ok flag and a body that is JSON or not; a JSON body of a
\* failed response carries detail or not; a JSON body of a successful one
\* carries the success flag, an optional error and an optional schema.
Response(rejects, ok, json, detail, success, err, sch) ==
    [rejects |-> rejects, ok |-> ok, json |-> json, detail |-> detail,
     success |-> success, error |-> err, schema |-> sch]

\* what a call returns or throws
Returned(v) == [threw |-> FALSE, message |-> <<>>, value |-> v]
Threw(m) == [threw |-> TRUE, message |-> m, value |-> <<>>]

\* ApiService.request: the parsed body, or the Error thrown
ApiService_request(resp) ==
    IF resp.rejects THEN Threw(<<"Failed to fetch">>)
    ELSE IF ~resp.ok
    THEN IF resp.json
         THEN Threw(IF Len(resp.detail) > 0 THEN resp.detail[1] ELSE <<>>)
         ELSE Threw(<<"HTTP error ", "500">>)
    ELSE IF ~resp.json THEN Threw(<<"Unexpected token < in JSON at position 0">>)
    ELSE Returned(resp)

\* ApiService.generateSchema: the schema of the response (absent when the body
\* has none), or the Error thrown
generateSchema(resp) ==
    LET r == ApiService_request(resp)
    IN  IF r.threw THEN r
        ELSE IF ~r.value.success
        THEN Threw(IF Len(r.value.error) > 0 /\ Len(r.value.error[1]) > 0
                   THEN r.value.error[1] ELSE <<"Failed to generate schema">>)
        ELSE Returned(r.value.schema)

-----------------------------------------------------------------------------
(* store/schemaStore.ts *)

\* one task of the event loop: the clock moves on by one tick
Task ==
    /\ now < MaxTime
    /\ now' = now + 1
    /\ UNCHANGED compilerVars

\* generateId(): an id no entity has yet
generateId == 100 + now

\* x.id || generateId()
WithId(x) == [x EXCEPT !.id = IF x.id # 0 THEN x.id ELSE generateId]

\* a store that takes the new schema and keeps the outputs of the old one
StoreStale(updatedSchema) ==
    /\ schema' = <<updatedSchema>>
    /\ UNCHANGED <<compiledSQL, compiledMermaid>>

\* set({schema, compiledSQL, compiledMermaid}) with both outputs compiled from
\* the schema being stored
StoreCompiled(updatedSchema) ==
    /\ schema' = <<updatedSchema>>
    /\ compiledSQL' = compileSQL(updatedSchema)
    /\ compiledMermaid' = compileMermaid(updatedSchema)

\* Helper function to update schema and recompile, followed by set(...)
updateAndRecompile(schemaUpdater(_)) ==
    IF schema = <<>> THEN UNCHANGED <<schema, compiledSQL, compiledMermaid>>
    ELSE StoreCompiled(schemaUpdater([schema[1] EXCEPT !.updatedAt = Date_now]))

\* the fields of the store that no schema edit writes
uiVars == <<isLoading, isGenerating, error, selectedTableId, selectedRelationshipId,
            userPrompt, dialect, inflight>>

setSchema(s) ==
    /\ StoreCompiled(s)
    /\ error' = <<>>

clearSchema ==
    /\ schema' = <<>>
    /\ compiledSQL' = <<>>
    /\ compiledMermaid' = <<>>
    /\ selectedTableId' = 0
    /\ selectedRelationshipId' = 0
    /\ error' = <<>>

\* {...schema, ...updates}
updateSchema(updates) == updateAndRecompile(LAMBDA s : updates @@ s)

setDialect(d) == updateAndRecompile(LAMBDA s : [s EXCEPT !.dialect = d])

\* tables.map(t => t.id === tableId ? f(t) : t)
MapTable(s, tableId, F(_)) ==
    [s EXCEPT !.tables = Map(s.tables, LAMBDA t : IF t.id = tableId THEN F(t) ELSE t)]

addTable(table) ==
    updateAndRecompile(LAMBDA s : [s EXCEPT !.tables = Append(s.tables, WithId(table))])

updateTable(tableId, updates) ==
    updateAndRecompile(LAMBDA s : MapTable(s, tableId, LAMBDA t : updates @@ t))

deleteTable(tableId) ==
    IF schema = <<>> \/ ~\E i \in 1..Len(schema[1].tables) : schema[1].tables[i].id = tableId
    THEN UNCHANGED <<schema, compiledSQL, compiledMermaid>>
    ELSE LET tables == schema[1].tables
             table == tables[CHOOSE i \in 1..Len(tables) :
                               /\ tables[i].id = tableId
                               /\ \A j \in 1..(i - 1) : tables[j].id # tableId]
         IN  updateAndRecompile(LAMBDA s :
                [s EXCEPT !.tables = Filter(s.tables, LAMBDA t : t.id # tableId),
                          !.relationships =
                              Filter(s.relationships, LAMBDA r :
                                  r.sourceTable # table.name /\ r.targetTable # table.name)])

\* a selectTable that keeps the relationship selection
selectTableKeepRelationship(tableId) ==
    /\ selectedTableId' = tableId
    /\ UNCHANGED selectedRelationshipId

selectTable(tableId) ==
    /\ selectedTableId' = tableId
    /\ selectedRelationshipId' = 0

addColumn(tableId, column) ==
    updateAndRecompile(LAMBDA s : MapTable(s, tableId, LAMBDA t :
        [t EXCEPT !.columns = Append(t.columns, WithId(column))]))

updateColumn(tableId, columnId, updates) ==
    updateAndRecompile(LAMBDA s : MapTable(s, tableId, LAMBDA t :
        [t EXCEPT !.columns = Map(t.columns, LAMBDA c :
                                    IF c.id = columnId THEN updates @@ c ELSE c)]))

deleteColumn(tableId, columnId) ==
    updateAndRecompile(LAMBDA s : MapTable(s, tableId, LAMBDA t :
        [t EXCEPT !.columns = Filter(t.columns, LAMBDA c : c.id # columnId)]))

addRelationship(relationship) ==
    updateAndRecompile(LAMBDA s :
        [s EXCEPT !.relationships = Append(s.relationships, WithId(relationship))])

updateRelationship(relationshipId, updates) ==
    updateAndRecompile(LAMBDA s :
        [s EXCEPT !.relationships = Map(s.relationships, LAMBDA r :
            IF r.id = relationshipId THEN updates @@ r ELSE r)])

deleteRelationship(relationshipId) ==
    updateAndRecompile(LAMBDA s :
        [s EXCEPT !.relationships = Filter(s.relationships, LAMBDA r : r.id # relationshipId)])

selectRelationship(relationshipId) ==
    /\ selectedRelationshipId' = relationshipId
    /\ selectedTableId' = 0

\* String.prototype.toLowerCase on one character
toLowerChar(c) ==
    LET upper == <<"A","B","C","D","E","F","G","H","I","J","K","L","M",
                   "N","O","P","Q","R","S","T","U","V","W","X","Y","Z">>
        lower == <<"a","b","c","d","e","f","g","h","i","j","k","l","m",
                   "n","o","p","q","r","s","t","u","v","w","x","y","z">>
    IN  IF c \in UpperLetters THEN lower[CHOOSE i \in 1..26 : upper[i] = c] ELSE c

toLowerCase(str) == [i \in 1..Len(str) |-> toLowerChar(str[i])]

\* a junction descriptor that keeps the case of the table names
junctionDescriptorKeepCase(rel) ==
    [name |-> rel.sourceTable \o <<"_">> \o rel.targetTable,
     sourceColumn |-> rel.sourceTable \o <<"_", "i", "d">>,
     targetColumn |-> rel.targetTable \o <<"_", "i", "d">>]

\* the junction table info changeCardinality creates for rel
junctionDescriptor(rel) ==
    [name |-> rel.sourceTable \o <<"_">> \o rel.targetTable,
     sourceColumn |-> toLowerCase(rel.sourceTable) \o <<"_", "i", "d">>,
     targetColumn |-> toLowerCase(rel.targetTable) \o <<"_", "i", "d">>]

changeCardinality(relationshipId, cardinality) ==
    IF schema = <<>> \/ ~\E i \in 1..Len(schema[1].relationships) :
                            schema[1].relationships[i].id = relationshipId
    THEN UNCHANGED <<schema, compiledSQL, compiledMermaid>>
    ELSE LET rels == schema[1].relationships
             rel == rels[CHOOSE i \in 1..Len(rels) :
                            /\ rels[i].id = relationshipId
                            /\ \A j \in 1..(i - 1) : rels[j].id # relationshipId]
             junctionTable ==
                IF cardinality = "many-to-many"
                THEN <<junctionDescriptor(rel)>>
                ELSE <<>>
         IN  updateAndRecompile(LAMBDA s :
                [s EXCEPT !.relationships = Map(s.relationships, LAMBDA r :
                    IF r.id = relationshipId
                    THEN [r EXCEPT !.cardinality = cardinality,
                                   !.junctionTable = junctionTable]
                    ELSE r)])

addIndex(tableId, index) ==
    updateAndRecompile(LAMBDA s : MapTable(s, tableId, LAMBDA t :
        [t EXCEPT !.indexes = Append(t.indexes, WithId(index))]))

deleteIndex(tableId, indexId) ==
    updateAndRecompile(LAMBDA s : MapTable(s, tableId, LAMBDA t :
        [t EXCEPT !.indexes = Filter(t.indexes, LAMBDA i : i.id # indexId)]))

addForeignKey(tableId, fk) ==
    updateAndRecompile(LAMBDA s : MapTable(s, tableId, LAMBDA t :
        [t EXCEPT !.foreignKeys = Append(t.foreignKeys, WithId(fk))]))

deleteForeignKey(tableId, fkId) ==
    updateAndRecompile(LAMBDA s : MapTable(s, tableId, LAMBDA t :
        [t EXCEPT !.foreignKeys = Filter(t.foreignKeys, LAMBDA fk : fk.id # fkId)]))

addStoredProcedure(proc) ==
    updateAndRecompile(LAMBDA s :
        [s EXCEPT !.storedProcedures = Append(s.storedProcedures, WithId(proc))])

updateStoredProcedure(procId, updates) ==
    updateAndRecompile(LAMBDA s :
        [s EXCEPT !.storedProcedures = Map(s.storedProcedures, LAMBDA q :
            IF q.id = procId THEN updates @@ q ELSE q)])

deleteStoredProcedure(procId) ==
    updateAndRecompile(LAMBDA s :
        [s EXCEPT !.storedProcedures = Filter(s.storedProcedures, LAMBDA q : q.id # procId)])

setLoading(b) == isLoading' = b
setGenerating(b) == isGenerating' = b
setError(e) == error' = e
setUserPrompt(prompt) == userPrompt' = prompt

\* a recompile without the check for a schema: the compilers get null
recompileUnguarded ==
    /\ compiledSQL' = (IF schema = <<>> THEN <<"undefined">> ELSE compileSQL(schema[1]))
    /\ compiledMermaid' = (IF schema = <<>> THEN <<"erDiagram">> ELSE compileMermaid(schema[1]))

recompile ==
    IF schema = <<>> THEN UNCHANGED <<compiledSQL, compiledMermaid>>
    ELSE /\ compiledSQL' = compileSQL(schema[1])
         /\ compiledMermaid' = compileMermaid(schema[1])

-----------------------------------------------------------------------------
(* The values the actions of the store are called with *)

Cardinalities == {"one-to-one", "one-to-many", "many-to-many"}

\* schemas the generation service answers with
GeneratedOneToMany ==
    Schema(1, "postgresql",
           << Table(1, N_a, <<idColumn>>, <<>>),
              Table(2, N_bc, <<idColumn>>, <<ForeignKey(1, N_a)>>) >>,
           << Relationship(1, <<"r">>, N_a, N_bc, "one-to-many", <<>>) >>,
           <<>>)

GeneratedManyToMany ==
    Schema(2, "mysql",
           << Table(1, N_a, <<idColumn>>, <<>>), Table(2, N_c, <<idColumn>>, <<>>) >>,
           << Relationship(1, <<>>, N_a, N_c, "many-to-many", <<Junction(N_a, N_c)>>) >>,
           <<RichProcedure>>)

N_Us == <<"U", "s">>

GeneratedCapitalized ==
    Schema(3, "postgresql",
           << Table(1, N_Us, <<idColumn>>, <<>>), Table(2, N_c, <<idColumn>>, <<>>) >>,
           << Relationship(1, <<"r">>, N_Us, N_Us, "one-to-many", <<>>) >>,
           <<>>)

GeneratedSchemas == {GeneratedOneToMany, GeneratedManyToMany, GeneratedCapitalized}

\* the answers of the generation endpoint
Responses ==
    { Response(TRUE, FALSE, FALSE, <<>>, FALSE, <<>>, <<>>),              \* network failure
      Response(FALSE, FALSE, TRUE, << <<"Rate limit exceeded">> >>, FALSE, <<>>, <<>>),
      Response(FALSE, FALSE, TRUE, <<>>, FALSE, <<>>, <<>>),              \* JSON without detail
      Response(FALSE, FALSE, FALSE, <<>>, FALSE, <<>>, <<>>),             \* error page
      Response(FALSE, TRUE, FALSE, <<>>, FALSE, <<>>, <<>>),              \* body is not JSON
      Response(FALSE, TRUE, TRUE, <<>>, FALSE, << <<"Model refused">> >>, <<>>),
      Response(FALSE, TRUE, TRUE, <<>>, FALSE, <<>>, <<>>),
      Response(FALSE, TRUE, TRUE, <<>>, TRUE, <<>>, <<>>) }               \* success, no schema
    \cup {Response(FALSE, TRUE, TRUE, <<>>, TRUE, <<>>, <<g>>) : g \in GeneratedSchemas}

Prompts == { <<>>, <<" ">>, <<"p">> }

NewTable == Table(0, N_c, <<idColumn>>, <<>>)
NewColumn == Column(0, <<"x">>, "integer", FALSE, TRUE, FALSE, Null)
NewRelationship == Relationship(0, <<>>, N_bc, N_a, "one-to-one", <<>>)
NewIndex == [id |-> 5, name |-> <<"i", "x">>, columns |-> << <<"i", "d">> >>,
             isUnique |-> FALSE, type |-> <<>>]
NewForeignKey == ForeignKey(0, N_bc)
NewProcedure == [RichProcedure EXCEPT !.id = 0]

-----------------------------------------------------------------------------
(* The store and the PromptInput component as a state machine *)

Init ==
    /\ schema = <<>>
    /\ compiledSQL = <<>>
    /\ compiledMermaid = <<>>
    /\ isLoading = FALSE
    /\ isGenerating = FALSE
    /\ error = <<>>
    /\ selectedTableId = 0
    /\ selectedRelationshipId = 0
    /\ userPrompt = <<>>
    /\ dialect = "postgresql"
    /\ inflight = 0
    /\ now = 0
    /\ input = <<>> /\ pc = "idle"
    /\ sql1 = <<>> /\ sql2 = <<>> /\ mermaid1 = <<>> /\ mermaid2 = <<>>

\* handleGenerate up to its await: the prompt check, then the request is sent
HandleGenerate ==
    /\ Task
    /\ IF ~TrimNonEmpty(userPrompt)
       THEN /\ setError(<< <<"Please enter a description of your application">> >>)
            /\ UNCHANGED <<isGenerating, inflight>>
       ELSE /\ inflight < MaxInflight
            /\ setGenerating(TRUE)
            /\ setError(<<>>)
            /\ inflight' = inflight + 1
    /\ UNCHANGED <<schema, compiledSQL, compiledMermaid, isLoading, selectedTableId,
                   selectedRelationshipId, userPrompt, dialect>>

\* a handler that answers a failed request by sending the request again
GenerateSettledRetrying(resp) ==
    LET r == generateSchema(resp)
    IN  /\ inflight > 0
        /\ IF r.threw \/ Len(r.value) = 0
           THEN /\ inflight' = inflight
                /\ UNCHANGED <<schema, compiledSQL, compiledMermaid, error, isGenerating>>
           ELSE /\ inflight' = inflight - 1
                /\ setSchema(r.value[1])
                /\ setGenerating(FALSE)

\* handleGenerate from its await on: try / catch / finally on the answer resp
GenerateSettled(resp) ==
    LET r == generateSchema(resp)
    IN  /\ inflight > 0
        /\ inflight' = inflight - 1
        /\ IF r.threw
           THEN /\ setError(<<r.message>>)
                /\ UNCHANGED <<schema, compiledSQL, compiledMermaid>>
           ELSE IF Len(r.value) = 0
           \* compileSQL(undefined) throws a TypeError before set() is reached
           THEN /\ setError(<< <<"Cannot read properties of undefined (reading 'dialect')">> >>)
                /\ UNCHANGED <<schema, compiledSQL, compiledMermaid>>
           ELSE setSchema(r.value[1])
        /\ setGenerating(FALSE)

HandleGenerateSettled ==
    \E resp \in Responses :
        /\ Task
        /\ GenerateSettled(resp)
        /\ UNCHANGED <<isLoading, selectedTableId, selectedRelationshipId, userPrompt, dialect>>

\* handleDialectChange
HandleDialectChange ==
    \E d \in Dialects :
        /\ Task
        /\ dialect' = d
        /\ setDialect(d)
        /\ UNCHANGED <<isLoading, isGenerating, error, selectedTableId,
                       selectedRelationshipId, userPrompt, inflight>>

ClearSchema ==
    /\ Task
    /\ clearSchema
    /\ UNCHANGED <<isLoading, isGenerating, userPrompt, dialect, inflight>>

\* an edit whose set(...) also writes error: null
EditResettingError(call) ==
    /\ Task
    /\ call
    /\ error' = <<>>
    /\ UNCHANGED <<isLoading, isGenerating, selectedTableId, selectedRelationshipId,
                   userPrompt, dialect, inflight>>

\* an edit of the schema: the call and nothing else
Edit(call) == Task /\ call /\ UNCHANGED uiVars

UpdateSchema == Edit(updateSchema([name |-> <<"T">>]))
AddTable == Edit(addTable(NewTable))
UpdateTable == Edit(updateTable(1, [name |-> <<"z">>]))
DeleteTable == \E id \in {1, 2} : Edit(deleteTable(id))
AddColumn == Edit(addColumn(1, NewColumn))
UpdateColumn == Edit(updateColumn(1, 1, [isUnique |-> TRUE]))
DeleteColumn == Edit(deleteColumn(1, 1))
AddRelationship == Edit(addRelationship(NewRelationship))
UpdateRelationship == Edit(updateRelationship(1, [cardinality |-> "many-to-many"]))
DeleteRelationship == Edit(deleteRelationship(1))
ChangeCardinality == \E id \in {1, 7}, c \in Cardinalities : Edit(changeCardinality(id, c))
AddIndex == Edit(addIndex(1, NewIndex))
DeleteIndex == Edit(deleteIndex(1, 5))
AddForeignKey == Edit(addForeignKey(1, NewForeignKey))
DeleteForeignKey == Edit(deleteForeignKey(2, 1))
AddStoredProcedure == Edit(addStoredProcedure(NewProcedure))
UpdateStoredProcedure == Edit(updateStoredProcedure(1, [body |-> <<"other">>]))
DeleteStoredProcedure == Edit(deleteStoredProcedure(1))

Recompile ==
    /\ Task
    /\ recompile
    /\ UNCHANGED schema
    /\ UNCHANGED uiVars

\* a click on a table of the tree view, which lists the tables of the schema
SelectTable ==
    \E id \in IF schema = <<>> THEN {}
               ELSE {schema[1].tables[i].id : i \in 1..Len(schema[1].tables)} :
        /\ Task
        /\ selectTable(id)
        /\ UNCHANGED <<schema, compiledSQL, compiledMermaid, isLoading, isGenerating,
                       error, userPrompt, dialect, inflight>>

\* a click on a relationship of the tree view
SelectRelationship ==
    \E id \in IF schema = <<>> THEN {}
               ELSE {schema[1].relationships[i].id : i \in 1..Len(schema[1].relationships)} :
        /\ Task
        /\ selectRelationship(id)
        /\ UNCHANGED <<schema, compiledSQL, compiledMermaid, isLoading, isGenerating,
                       error, userPrompt, dialect, inflight>>

SetLoading ==
    \E b \in BOOLEAN :
        /\ Task
        /\ setLoading(b)
        /\ UNCHANGED <<schema, compiledSQL, compiledMermaid, isGenerating, error,
                       selectedTableId, selectedRelationshipId, userPrompt, dialect, inflight>>

\* the dismiss button of ErrorBanner
DismissError ==
    /\ Task
    /\ setError(<<>>)
    /\ UNCHANGED <<schema, compiledSQL, compiledMermaid, isLoading, isGenerating,
                   selectedTableId, selectedRelationshipId, userPrompt, dialect, inflight>>

SetUserPrompt ==
    \E prompt \in Prompts :
        /\ Task
        /\ setUserPrompt(prompt)
        /\ UNCHANGED <<schema, compiledSQL, compiledMermaid, isLoading, isGenerating, error,
                       selectedTableId, selectedRelationshipId, dialect, inflight>>

Next ==
    \/ HandleGenerate
    \/ HandleGenerateSettled
    \/ HandleDialectChange
    \/ ClearSchema
    \/ UpdateSchema
    \/ AddTable
    \/ UpdateTable
    \/ DeleteTable
    \/ AddColumn
    \/ UpdateColumn
    \/ DeleteColumn
    \/ AddRelationship
    \/ UpdateRelationship
    \/ DeleteRelationship
    \/ ChangeCardinality
    \/ AddIndex
    \/ DeleteIndex
    \/ AddForeignKey
    \/ DeleteForeignKey
    \/ AddStoredProcedure
    \/ UpdateStoredProcedure
    \/ DeleteStoredProcedure
    \/ Recompile
    \/ SelectTable
    \/ SelectRelationship
    \/ SetLoading
    \/ DismissError
    \/ SetUserPrompt

Spec == Init /\ [][Next]_vars

-----------------------------------------------------------------------------
(* Reading a compiled text *)

\* the lines of a text
Lines(text) ==
    LET breaks == SelectSeq([i \in 1..Len(text) |-> i], LAMBDA i : text[i] = "\n")
        n == Len(breaks)
    IN  [k \in 1..(n + 1) |->
            SubSeq(text, IF k = 1 THEN 1 ELSE breaks[k - 1] + 1,
                         IF k = n + 1 THEN Len(text) ELSE breaks[k] - 1)]

\* line begins with the atoms of prefix
StartsWith(line, prefix) ==
    Len(line) >= Len(prefix) /\ SubSeq(line, 1, Len(prefix)) = prefix

\* the positions of the lines that begin with prefix, in increasing order
LinesStarting(lines, prefix) ==
    SelectSeq([i \in 1..Len(lines) |-> i], LAMBDA i : StartsWith(lines[i], prefix))

IsTimestampLine(line) == StartsWith(line, <<"-- Generated: ">>)

\* a text without its header timestamp line
WithoutTimestamp(text) == SelectSeq(Lines(text), LAMBDA line : ~IsTimestampLine(line))

-----------------------------------------------------------------------------
(* C1: in every reachable state of the store, compiledSQL and              *)
(* compiledMermaid are the compilation of the current schema (compiledSQL  *)
(* up to its header timestamp line), and both are empty when schema is     *)
(* null.                                                                   *)
C1_CompiledFromCurrentSchema ==
    IF schema = <<>>
    THEN compiledSQL = <<>> /\ compiledMermaid = <<>>
    ELSE /\ compiledMermaid = compileMermaid(schema[1])
         /\ WithoutTimestamp(compiledSQL) = WithoutTimestamp(compileSQL(schema[1]))
         /\ Len(Lines(compiledSQL)) = Len(Lines(compileSQL(schema[1])))

\* a generated schema has been edited twice, the second time by changeCardinality
C1_Witness ==
    /\ schema # <<>>
    /\ Len(schema[1].tables) = 3
    /\ \E i \in 1..Len(schema[1].relationships) :
          /\ schema[1].relationships[i].cardinality = "many-to-many"
          /\ Len(schema[1].relationships[i].junctionTable) = 1
    /\ schema[1].id = 1
    /\ \E i \in 1..Len(compiledSQL) : compiledSQL[i] = "-- Junction Tables (Many-to-Many)"

-----------------------------------------------------------------------------
(* C2: when a generation request fails, handleGenerate sets error to one   *)
(* human-readable message and leaves schema, compiledSQL and               *)
(* compiledMermaid as they were.                                           *)

\* the answers on which the request fails
FailedResponses ==
    {resp \in Responses : generateSchema(resp).threw \/ Len(generateSchema(resp).value) = 0}

\* e is a message a person can read: not null and not the empty string
HumanReadable(e) == Len(e) = 1 /\ Len(e[1]) > 0

C2_FailureReportsAndKeepsSchema ==
    [][\A resp \in FailedResponses :
          (Task /\ GenerateSettled(resp)) =>
              /\ UNCHANGED <<schema, compiledSQL, compiledMermaid>>
              /\ HumanReadable(error')]_vars

-----------------------------------------------------------------------------
(* Reading the statements of a compiled SQL text *)

\* infix occurs in line
Contains(line, infix) ==
    \E i \in 1..(Len(line) - Len(infix) + 1) : SubSeq(line, i, i + Len(infix) - 1) = infix

\* the positions of the CREATE TABLE lines and of the ALTER TABLE lines
CreateLines(lines) == LinesStarting(lines, <<"CREATE TABLE ">>)
AlterLines(lines) == LinesStarting(lines, <<"ALTER TABLE ">>)

\* the CREATE TABLE line of a table of the schema, and of a junction table
CreateLineOf(d, table) == <<"CREATE TABLE ">> \o tableName(d, table) \o <<" (">>
JunctionCreateLineOf(d, rel) ==
    <<"CREATE TABLE ">> \o quote(d, rel.junctionTable[1].name) \o <<" (">>

\* the many-to-many relationships of s that carry a junction descriptor
ManyToManyWithJunction(s) ==
    SelectSeq(s.relationships,
              LAMBDA r : r.cardinality = "many-to-many" /\ r.junctionTable # <<>>)

\* line names table in a REFERENCES clause
References(d, line, table) ==
    \/ Contains(line, <<"  REFERENCES ">> \o quote(d, table.name) \o <<" (">>)
    \/ Contains(line, <<" REFERENCES ">> \o quote(d, table.name) \o <<" (">>)

-----------------------------------------------------------------------------
(* C3 as stated: in the text returned by compileSQL all CREATE TABLE       *)
(* statements precede all ALTER TABLE statements.                          *)
C3_AllCreatesBeforeAlters ==
    pc # "new" =>
        LET lines == Lines(sql1)
            creates == CreateLines(lines)
            alters == AlterLines(lines)
        IN  \A c \in 1..Len(creates), a \in 1..Len(alters) : creates[c] < alters[a]

(* C3 amended: the CREATE TABLE statements of the tables of S.tables       *)
(* precede all ALTER TABLE statements and the CREATE TABLE statements of   *)
(* junction tables follow them; every REFERENCES clause that names a table *)
(* of S.tables comes after that table's CREATE TABLE statement.            *)
C3_TableCreatesBeforeConstraints ==
    pc # "new" =>
        LET lines == Lines(sql1)
            creates == CreateLines(lines)
            alters == AlterLines(lines)
            n == Len(input.tables)
        IN  /\ Len(creates) >= n
            /\ \A k \in 1..n, a \in 1..Len(alters) : creates[k] < alters[a]
            /\ \A k \in (n + 1)..Len(creates), a \in 1..Len(alters) : alters[a] < creates[k]
            /\ \A k \in 1..n, r \in 1..Len(lines) :
                  References(input.dialect, lines[r], input.tables[k]) => creates[k] < r

\* a compiled schema with a foreign key, declared on a table that precedes the
\* one it references, and with a junction table
C3_Witness ==
    /\ pc = "once"
    /\ Len(input.tables) >= 2
    /\ Len(input.tables[1].foreignKeys) >= 1
    /\ input.tables[1].foreignKeys[1].referencedTable = input.tables[2].name
    /\ Len(ManyToManyWithJunction(input)) >= 1
    /\ Len(AlterLines(Lines(sql1))) >= 1
    /\ Len(CreateLines(Lines(sql1))) > Len(input.tables)

-----------------------------------------------------------------------------
(* C4 as stated: the SQL output contains exactly one CREATE TABLE          *)
(* statement per table in S.tables, in the order of S.tables.              *)
C4_OneCreatePerTable ==
    pc # "new" =>
        LET lines == Lines(sql1)
            creates == CreateLines(lines)
        IN  /\ Len(creates) = Len(input.tables)
            /\ \A k \in 1..Len(creates) :
                  lines[creates[k]] = CreateLineOf(input.dialect, input.tables[k])

(* C4 amended: the CREATE TABLE statements of the SQL output are, in       *)
(* order, one per table of S.tables in the order of S.tables, followed by  *)
(* one per many-to-many relationship with a junction descriptor in the     *)
(* order of S.relationships, and no others.                                *)
C4_CreatesAreTablesThenJunctions ==
    pc # "new" =>
        LET lines == Lines(sql1)
            creates == CreateLines(lines)
            n == Len(input.tables)
            junctions == ManyToManyWithJunction(input)
        IN  /\ Len(creates) = n + Len(junctions)
            /\ \A k \in 1..n :
                  lines[creates[k]] = CreateLineOf(input.dialect, input.tables[k])
            /\ \A k \in 1..Len(junctions) :
                  lines[creates[n + k]] = JunctionCreateLineOf(input.dialect, junctions[k])

\* a compiled schema with several tables and a junction table
C4_Witness ==
    /\ pc = "once"
    /\ Len(input.tables) >= 2
    /\ Len(ManyToManyWithJunction(input)) >= 1
    /\ Len(CreateLines(Lines(sql1))) = Len(input.tables) + 1

-----------------------------------------------------------------------------
(* C5: compiling the same schema value twice yields the same diagram text, *)
(* and SQL texts that differ at most in the header line that carries the   *)
(* generation timestamp.                                                   *)
C5_CompileTwice ==
    pc = "twice" =>
        LET first == Lines(sql1)
            second == Lines(sql2)
        IN  /\ mermaid1 = mermaid2
            /\ Len(first) = Len(second)
            /\ \A i \in 1..Len(first) :
                  first[i] # second[i] => IsTimestampLine(first[i]) /\ IsTimestampLine(second[i])
            /\ Cardinality({i \in 1..Len(first) : first[i] # second[i]}) <= 1

\* a schema with tables compiled twice, at different instants
C5_Witness ==
    /\ pc = "twice"
    /\ Len(input.tables) >= 2
    /\ sql1 # sql2
    /\ Len(mermaid1) > 1

-----------------------------------------------------------------------------
\* the junction-table statement generateJunctionTables writes for rel occupies
\* nine lines, the first a comment naming the two tables
JunctionBlocks(lines) == LinesStarting(lines, <<"-- Junction table for ">>)

(* C6: for every many-to-many relationship with a junction descriptor the  *)
(* SQL output contains a CREATE TABLE for the junction name whose PRIMARY  *)
(* KEY is exactly (sourceColumn, targetColumn) of the descriptor and whose *)
(* two FOREIGN KEY clauses reference the relationship's source and target  *)
(* table and column, both ON DELETE CASCADE; no other relationship         *)
(* produces a junction table.                                              *)
C6_JunctionTables ==
    pc # "new" =>
        LET d == input.dialect
            lines == Lines(sql1)
            blocks == JunctionBlocks(lines)
            junctions == ManyToManyWithJunction(input)
            q(name) == quote(d, name)
        IN  /\ Len(blocks) = Len(junctions)
            /\ Len(CreateLines(lines)) = Len(input.tables) + Len(junctions)
            /\ \A k \in 1..Len(junctions) :
                  LET rel == junctions[k]
                      jt == rel.junctionTable[1]
                      b == blocks[k]
                      block == SubSeq(lines, b + 1, b + 8)
                  IN  /\ b + 8 <= Len(lines)
                      /\ block[1] = <<"CREATE TABLE ">> \o q(jt.name) \o <<" (">>
                      /\ block[5] = <<"  PRIMARY KEY (">> \o q(jt.sourceColumn) \o <<", ">>
                                    \o q(jt.targetColumn) \o <<")", ",">>
                      /\ block[6] = <<"  FOREIGN KEY (">> \o q(jt.sourceColumn)
                                    \o <<")", " REFERENCES ">> \o q(rel.sourceTable)
                                    \o <<" (">> \o q(rel.sourceColumn)
                                    \o <<")", " ON DELETE ", "CASCADE", ",">>
                      /\ block[7] = <<"  FOREIGN KEY (">> \o q(jt.targetColumn)
                                    \o <<")", " REFERENCES ">> \o q(rel.targetTable)
                                    \o <<" (">> \o q(rel.targetColumn)
                                    \o <<")", " ON DELETE ", "CASCADE">>
                      /\ StartsWith(block[8], <<")">>)
                      /\ Len(LinesStarting(block, <<"  PRIMARY KEY (">>)) = 1
                      /\ Len(LinesStarting(block, <<"  FOREIGN KEY (">>)) = 2
                      /\ \A i \in 2..4 : ~StartsWith(block[i], <<")">>)

\* a compiled schema whose relationships are of every kind: many-to-many with
\* and without a descriptor, and another cardinality with a descriptor
C6_Witness ==
    /\ pc = "once"
    /\ Len(ManyToManyWithJunction(input)) = 2
    /\ \E i \in 1..Len(input.relationships) :
          /\ input.relationships[i].cardinality = "many-to-many"
          /\ input.relationships[i].junctionTable = <<>>
    /\ \E i \in 1..Len(input.relationships) :
          /\ input.relationships[i].cardinality = "one-to-many"
          /\ input.relationships[i].junctionTable # <<>>
    /\ Len(JunctionBlocks(Lines(sql1))) = 2

-----------------------------------------------------------------------------
\* the line that closes the statement opened on line c
ClosingLine(lines, c) ==
    CHOOSE e \in (c + 1)..Len(lines) :
        /\ StartsWith(lines[e], <<")">>)
        /\ \A f \in (c + 1)..(e - 1) : ~StartsWith(lines[f], <<")">>)

PrimaryKeyColumns(table) == SelectSeq(table.columns, LAMBDA c : c.isPrimaryKey)

(* C7: the line of a column with isPrimaryKey = true contains neither NOT  *)
(* NULL nor UNIQUE whatever its isNullable and isUnique flags; a table     *)
(* with a primary-key column gets exactly one PRIMARY KEY clause, listing  *)
(* the primary-key columns in declaration order, and a table without one   *)
(* gets no PRIMARY KEY clause.                                             *)
C7_PrimaryKeyColumns ==
    pc # "new" =>
        LET d == input.dialect
            lines == Lines(sql1)
            creates == CreateLines(lines)
        IN  /\ Len(creates) >= Len(input.tables)
            /\ \A k \in 1..Len(input.tables) :
                  LET table == input.tables[k]
                      cols == table.columns
                      pk == PrimaryKeyColumns(table)
                      c == creates[k]
                      pkLines == {i \in (c + 1)..(ClosingLine(lines, c) - 1) :
                                    StartsWith(lines[i], <<"  PRIMARY KEY (">>)}
                  IN  /\ \A j \in 1..Len(cols) :
                            /\ StartsWith(lines[c + j], <<"  ">> \o quote(d, cols[j].name))
                            /\ cols[j].isPrimaryKey =>
                                  /\ "NOT NULL" \notin Range(lines[c + j])
                                  /\ "UNIQUE" \notin Range(lines[c + j])
                      /\ IF Len(pk) > 0
                         THEN /\ pkLines = {c + Len(cols) + 1}
                              /\ lines[c + Len(cols) + 1] =
                                    <<"  PRIMARY KEY (">>
                                    \o Join([i \in 1..Len(pk) |-> quote(d, pk[i].name)], <<", ">>)
                                    \o <<")">>
                         ELSE pkLines = {}

\* a compiled table with two primary-key columns, one of them flagged both
\* unique and not nullable
C7_Witness ==
    /\ pc = "once"
    /\ Len(input.tables) = 1
    /\ Len(PrimaryKeyColumns(input.tables[1])) = 2
    /\ \E j \in 1..2 : /\ ~input.tables[1].columns[j].isNullable
                       /\ input.tables[1].columns[j].isUnique
    /\ \E i \in 1..Len(sql1) : sql1[i] = "  PRIMARY KEY ("

-----------------------------------------------------------------------------
\* position of the first occurrence of atom in line
IndexOf(line, atom) == CHOOSE i \in 1..Len(line) :
                          line[i] = atom /\ \A j \in 1..(i - 1) : line[j] # atom

IsRelationshipLine(line) == "--" \in Range(line) /\ " : " \in Range(line)

\* the two entity names a relationship line connects
Ends(line) ==
    { SubSeq(line, 2, IndexOf(line, "--") - 3),
      SubSeq(line, IndexOf(line, "--") + 3, IndexOf(line, " : ") - 1) }

(* C8 as stated: for every foreign key F on table T the diagram contains a *)
(* relationship line connecting T and F.referencedTable (written by an     *)
(* explicit relationship over that unordered pair, or else derived from    *)
(* the foreign key), for all table names, names with hyphens included.     *)
C8_EveryForeignKeyIsDrawn ==
    pc # "new" =>
        LET lines == Lines(mermaid1)
        IN  \A k \in 1..Len(input.tables) :
                \A f \in 1..Len(input.tables[k].foreignKeys) :
                    \E l \in 1..Len(lines) :
                        /\ IsRelationshipLine(lines[l])
                        /\ Ends(lines[l]) =
                              { sanitizeName(input.tables[k].name),
                                sanitizeName(input.tables[k].foreignKeys[f].referencedTable) }

-----------------------------------------------------------------------------
HeaderAtoms ==
    { "-- ============================================", "-- Database Schema: ",
      "-- Dialect: ", "-- Generated: ", "-- Description: " }

(* C9 as stated: compileSQL omits every empty section; for a schema with   *)
(* no tables, relationships or stored procedures the output consists of    *)
(* the header comment block only.                                          *)
C9_EmptySectionsOmitted ==
    pc # "new" =>
        LET lines == Lines(sql1)
        IN  /\ ("-- Tables" \in Range(sql1)) <=> (Len(input.tables) > 0)
            /\ (/\ input.tables = <<>>
                /\ input.relationships = <<>>
                /\ input.storedProcedures = <<>>)
               => /\ Len(lines) = 6
                  /\ \A i \in 1..Len(lines) : lines[i] # <<>> /\ lines[i][1] \in HeaderAtoms

-----------------------------------------------------------------------------
(* C10 as stated: a column whose default value is null compiles to a       *)
(* column line that carries DEFAULT NULL, in both dialects.                *)
C10_NullDefault ==
    pc # "new" =>
        LET lines == Lines(sql1)
            creates == CreateLines(lines)
        IN  \A k \in 1..Len(input.tables) : \A j \in 1..Len(input.tables[k].columns) :
                input.tables[k].columns[j].defaultValue = Null =>
                    Contains(lines[creates[k] + j], <<"DEFAULT ", "NULL">>)

-----------------------------------------------------------------------------
\* text is str with every single quote written twice and nothing else changed
QuotesDoubled(str, text) ==
    LET quotesBefore(i) == Cardinality({j \in 1..(i - 1) : str[j] = "'"})
    IN  /\ Len(text) = Len(str) + quotesBefore(Len(str) + 1)
        /\ \A i \in 1..Len(str) :
              /\ text[i + quotesBefore(i)] = str[i]
              /\ str[i] = "'" => text[i + quotesBefore(i) + 1] = "'"

\* str contains one of CURRENT_TIMESTAMP, NOW() and UUID in any mix of cases
NamesSQLFunction(str) ==
    \E marker \in SQLFunctionMarkers : \E i \in 1..(Len(str) - Len(marker) + 1) :
        \A k \in 1..Len(marker) :
            \/ str[i + k - 1] = marker[k]
            \/ str[i + k - 1] \in LowerLetters /\ toUpperChar(str[i + k - 1]) = marker[k]

\* text is the SQL literal of the non-null default value under dialect d
IsDefaultLiteral(d, value, text) ==
    CASE value.kind = "boolean" ->
            text = << IF d = "postgresql"
                      THEN (IF value.val = <<"true">> THEN "TRUE" ELSE "FALSE")
                      ELSE (IF value.val = <<"true">> THEN "1" ELSE "0") >>
      [] value.kind = "number" -> text = <<ToString(value.num)>>
      [] value.kind = "string" ->
            IF NamesSQLFunction(value.val)
            THEN text = value.val
            ELSE /\ Len(text) >= 2
                 /\ text[1] = "'" /\ text[Len(text)] = "'"
                 /\ QuotesDoubled(value.val, SubSeq(text, 2, Len(text) - 1))
      [] OTHER -> FALSE

(* C11: in the column line a non-null default follows the word DEFAULT as: *)
(* TRUE/FALSE (postgresql) or 1/0 (mysql) for a boolean; its literal for a *)
(* number; the string itself, unquoted, when it contains CURRENT_TIMESTAMP,*)
(* NOW() or UUID in any case; otherwise the string in single quotes with   *)
(* every embedded single quote doubled.                                    *)
C11_DefaultValueFormatting ==
    pc # "new" =>
        LET lines == Lines(sql1)
            creates == CreateLines(lines)
        IN  \A k \in 1..Len(input.tables) : \A j \in 1..Len(input.tables[k].columns) :
                LET column == input.tables[k].columns[j]
                    line == lines[creates[k] + j]
                    line_ == IF line # <<>> /\ line[Len(line)] = ","
                             THEN SubSeq(line, 1, Len(line) - 1) ELSE line
                IN  column.defaultValue.kind \in {"boolean", "number", "string"} =>
                        /\ "DEFAULT " \in Range(line_)
                        /\ IsDefaultLiteral(input.dialect, column.defaultValue,
                                            SubSeq(line_, IndexOf(line_, "DEFAULT ") + 1, Len(line_)))

\* a compiled column whose default is a string with a single quote in it
C11_Witness ==
    /\ pc = "once"
    /\ Len(input.tables) = 1 /\ Len(input.tables[1].columns) = 2
    /\ LET value == input.tables[1].columns[2].defaultValue
       IN  /\ value.kind = "string"
           /\ "'" \in Range(value.val)
           /\ ~NamesSQLFunction(value.val)
    /\ \E i \in 1..(Len(sql1) - 4) : SubSeq(sql1, i, i + 4) = <<"DEFAULT ", "'", "O", "'", "'">>

-----------------------------------------------------------------------------
\* the dialect's quote character
QuoteCharacter(d) == IF d = "postgresql" THEN DQ ELSE BQ

\* the fragments of a statement after which a table, column, index or
\* constraint name is written
NameIntroducers ==
    { "CREATE TABLE ", "ALTER TABLE ", "  ADD CONSTRAINT ", "  FOREIGN KEY (",
      "  REFERENCES ", " REFERENCES ", "  PRIMARY KEY (", "INDEX ", " ON ",
      "COMMENT ON TABLE ", "COMMENT ON COLUMN " }

\* line is a clause of a CREATE TABLE body other than a column definition
IsTableConstraint(line) ==
    StartsWith(line, <<"  PRIMARY KEY (">>) \/ StartsWith(line, <<"  FOREIGN KEY (">>)

(* C12 as stated: every table, column, index and constraint name of the    *)
(* SQL output is written between the dialect's quote characters at every   *)
(* place it is emitted, the columns of junction tables included: a name    *)
(* that follows a statement keyword opens with the quote character, and so *)
(* does every column definition in the body of a CREATE TABLE.             *)
C12_EveryNameQuoted ==
    pc # "new" =>
        LET q == QuoteCharacter(input.dialect)
            lines == Lines(sql1)
            creates == CreateLines(lines)
        IN  /\ \A i \in 1..Len(sql1) :
                  sql1[i] \in NameIntroducers => i < Len(sql1) /\ sql1[i + 1] = q
            /\ \A k \in 1..Len(creates) :
                  \A i \in (creates[k] + 1)..(ClosingLine(lines, creates[k]) - 1) :
                      (lines[i] # <<>> /\ ~IsTableConstraint(lines[i])) =>
                          /\ Len(lines[i]) >= 2
                          /\ lines[i][1] = "  "
                          /\ lines[i][2] = q

-----------------------------------------------------------------------------
\* an optional number when it is specified, and otherwise dflt
SpecifiedOr(opt, dflt) == IF opt = <<>> THEN dflt ELSE opt[1]

(* C13 as stated: a varchar or char column is emitted as BASE(length) with *)
(* the column's length when specified and 255 when not; a decimal or       *)
(* numeric column as BASE(precision, scale) with the column's precision    *)
(* and scale when specified, a specified 0 included, and 10 and 2 when not.*)
C13_ParametrizedTypes ==
    pc # "new" =>
        LET d == input.dialect
            lines == Lines(sql1)
            creates == CreateLines(lines)
        IN  \A k \in 1..Len(input.tables) : \A j \in 1..Len(input.tables[k].columns) :
                LET column == input.tables[k].columns[j]
                    base == typeMapping[d][column.type]
                    name == <<"  ", QuoteCharacter(d)>> \o column.name
                            \o <<QuoteCharacter(d), " ">>
                IN  /\ column.type \in {"varchar", "char"} =>
                          StartsWith(lines[creates[k] + j],
                                     name \o <<base, "(",
                                               ToString(SpecifiedOr(column.length, 255)), ")">>)
                    /\ column.type \in {"decimal", "numeric"} =>
                          StartsWith(lines[creates[k] + j],
                                     name \o <<base, "(",
                                               ToString(SpecifiedOr(column.precision, 10)), ", ",
                                               ToString(SpecifiedOr(column.scale, 2)), ")">>)

-----------------------------------------------------------------------------
(* C14 as stated: every relationship of the stored schema has a junction   *)
(* descriptor if and only if its cardinality is many-to-many, after any    *)
(* sequence of store operations on a schema that starts that way.          *)
C14_JunctionIffManyToMany ==
    schema # <<>> =>
        \A i \in 1..Len(schema[1].relationships) :
            LET rel == schema[1].relationships[i]
            IN  (rel.junctionTable # <<>>) <=> (rel.cardinality = "many-to-many")

-----------------------------------------------------------------------------
(* C15 as stated: in the stored schema table names are unique and every    *)
(* relationship's sourceTable and targetTable name an existing table,      *)
(* after any sequence of store edits on a schema that starts that way.     *)
C15_NamesUniqueAndResolved ==
    schema # <<>> =>
        LET tables == schema[1].tables
            names == {tables[i].name : i \in 1..Len(tables)}
        IN  /\ \A i, j \in 1..Len(tables) : tables[i].name = tables[j].name => i = j
            /\ \A i \in 1..Len(schema[1].relationships) :
                  /\ schema[1].relationships[i].sourceTable \in names
                  /\ schema[1].relationships[i].targetTable \in names

-----------------------------------------------------------------------------
\* lowered is str with every upper-case letter replaced by its lower-case one
IsLowerCaseOf(str, lowered) ==
    /\ Len(lowered) = Len(str)
    /\ \A i \in 1..Len(str) :
          /\ lowered[i] \notin UpperLetters
          /\ toUpperChar(lowered[i]) = toUpperChar(str[i])

\* the store's own fields
storeFields == <<schema, compiledSQL, compiledMermaid, isLoading, isGenerating, error,
                 selectedTableId, selectedRelationshipId, userPrompt>>

(* C16: changeCardinality(id, many-to-many) on an existing relationship    *)
(* sets its descriptor to name source_target with columns lower(source)_id *)
(* and lower(target)_id, stores outputs that show the junction table and   *)
(* the many-to-many notation, and leaves the tables, the other             *)
(* relationships and the stored procedures as they were; with an unknown   *)
(* id the whole store is unchanged.                                        *)
C16_ChangeToManyToMany ==
    [][\A id \in {1, 7} :
          Edit(changeCardinality(id, "many-to-many")) =>
              IF schema # <<>> /\ \E i \in 1..Len(schema[1].relationships) :
                                      schema[1].relationships[i].id = id
              THEN LET old == schema[1]
                       new == schema'[1]
                       i == CHOOSE i \in 1..Len(old.relationships) : old.relationships[i].id = id
                       rel == old.relationships[i]
                       jt == new.relationships[i].junctionTable
                       q == QuoteCharacter(old.dialect)
                   IN  /\ schema' # <<>>
                       /\ Len(new.relationships) = Len(old.relationships)
                       /\ new.relationships[i].cardinality = "many-to-many"
                       /\ Len(jt) = 1
                       /\ jt[1].name = rel.sourceTable \o <<"_">> \o rel.targetTable
                       /\ Len(jt[1].sourceColumn) = Len(rel.sourceTable) + 3
                       /\ IsLowerCaseOf(rel.sourceTable,
                                        SubSeq(jt[1].sourceColumn, 1, Len(rel.sourceTable)))
                       /\ SubSeq(jt[1].sourceColumn, Len(rel.sourceTable) + 1,
                                 Len(rel.sourceTable) + 3) = <<"_", "i", "d">>
                       /\ Len(jt[1].targetColumn) = Len(rel.targetTable) + 3
                       /\ IsLowerCaseOf(rel.targetTable,
                                        SubSeq(jt[1].targetColumn, 1, Len(rel.targetTable)))
                       /\ SubSeq(jt[1].targetColumn, Len(rel.targetTable) + 1,
                                 Len(rel.targetTable) + 3) = <<"_", "i", "d">>
                       /\ new.relationships[i] =
                             [rel EXCEPT !.cardinality = "many-to-many", !.junctionTable = jt]
                       /\ \A j \in 1..Len(old.relationships) :
                             j # i => new.relationships[j] = old.relationships[j]
                       /\ new.tables = old.tables
                       /\ new.storedProcedures = old.storedProcedures
                       /\ Contains(compiledSQL',
                                   <<"CREATE TABLE ", q>> \o jt[1].name \o <<q, " (">>)
                       /\ Contains(compiledMermaid',
                                   <<"    ">> \o sanitizeName(rel.sourceTable)
                                   \o <<" ", "}o", "--", "o{", " ">>
                                   \o sanitizeName(rel.targetTable) \o <<" : ">>)
              ELSE UNCHANGED storeFields]_vars

\* a store whose one-to-many relationship of Us with itself was switched to
\* many-to-many: the descriptor is there and the outputs show it
C16_Witness ==
    /\ schema # <<>>
    /\ schema[1].id = 3
    /\ Len(schema[1].relationships) = 1
    /\ schema[1].relationships[1].cardinality = "many-to-many"
    /\ schema[1].relationships[1].junctionTable =
          << [name |-> <<"U", "s", "_", "U", "s">>,
              sourceColumn |-> <<"u", "s", "_", "i", "d">>,
              targetColumn |-> <<"u", "s", "_", "i", "d">>] >>
    /\ Contains(compiledSQL, <<"CREATE TABLE ", DQ, "U", "s", "_", "U", "s", DQ>>)
    /\ "}o" \in Range(compiledMermaid)

-----------------------------------------------------------------------------
\* the schema s under dialect d, everything else the same
UnderDialect(s, d) == [s EXCEPT !.dialect = d]

(* C17: compileMermaid returns the same text for two schemas that differ   *)
(* only in their dialect field.                                            *)
C17_DiagramIgnoresDialect ==
    pc # "new" =>
        \A d \in Dialects : compileMermaid(UnderDialect(input, d)) = mermaid1

\* a schema with tables and a relationship compiled under mysql, whose SQL
\* text is not the one of the same schema under postgresql
C17_Witness ==
    /\ pc = "once"
    /\ input.dialect = "mysql"
    /\ Len(input.tables) >= 2
    /\ Len(input.relationships) >= 1
    /\ WithoutTimestamp(sql1) # WithoutTimestamp(compileSQL(UnderDialect(input, "postgresql")))
    /\ Len(Lines(mermaid1)) > 5

-----------------------------------------------------------------------------
(* C18: a handleGenerate invocation issues at most one request, and none   *)
(* when the prompt is blank, in which case only error is set; nothing but  *)
(* a handleGenerate invocation issues a request, so the end of a request,  *)
(* failed or not, leaves one request fewer outstanding.                    *)
C18_NoRetries ==
    [][/\ inflight' <= inflight + 1
       /\ inflight' = inflight + 1 => HandleGenerate /\ TrimNonEmpty(userPrompt)
       /\ (HandleGenerate /\ ~TrimNonEmpty(userPrompt)) =>
             /\ inflight' = inflight
             /\ error' = << <<"Please enter a description of your application">> >>
             /\ UNCHANGED <<schema, compiledSQL, compiledMermaid, isLoading, isGenerating,
                            selectedTableId, selectedRelationshipId, userPrompt>>
       /\ \A resp \in Responses :
             (Task /\ GenerateSettled(resp)) => inflight' = inflight - 1]_vars

\* a request has failed and none is outstanding
C18_Witness ==
    /\ inflight = 0
    /\ ~isGenerating
    /\ error = << <<"Rate limit exceeded">> >>
    /\ schema = <<>>

-----------------------------------------------------------------------------
\* the section a line of the SQL output opens or belongs to, 1 to 8 in the
\* documented order, and 0 for a line that could stand in any section
SectionOf(lines, i) ==
    LET first == IF lines[i] = <<>> THEN "" ELSE lines[i][1]
    IN  CASE first \in HeaderAtoms -> 1
          [] first = "CREATE SCHEMA IF NOT EXISTS " -> 2
          [] first \in {"-- Enum Types", "CREATE TYPE "} -> 3
          [] first \in {"-- Tables", "COMMENT ON TABLE ", "COMMENT ON COLUMN "} -> 4
          [] first = "CREATE TABLE " ->
                IF i > 1 /\ StartsWith(lines[i - 1], <<"-- Junction table for ">>)
                THEN 7 ELSE 4
          [] first \in {"-- Indexes", "CREATE "} -> 5
          [] first \in {"-- Foreign Key Constraints", "ALTER TABLE "} -> 6
          [] first \in {"-- Junction Tables (Many-to-Many)", "-- Junction table for "} -> 7
          [] first \in {"-- Stored Procedures and Functions", "CREATE OR REPLACE FUNCTION ",
                        "CREATE PROCEDURE "} -> 8
          [] OTHER -> 0

SectionHeadings ==
    { "-- Enum Types", "-- Tables", "-- Indexes", "-- Foreign Key Constraints",
      "-- Junction Tables (Many-to-Many)", "-- Stored Procedures and Functions" }

(* C19: the sections of the SQL output appear in the order header,         *)
(* namespace creation, enum types, tables, indexes, foreign-key            *)
(* constraints, junction tables, stored procedures, each at most once, and *)
(* mysql output has neither CREATE SCHEMA nor CREATE TYPE statements.      *)
C19_SectionOrder ==
    pc # "new" =>
        LET lines == Lines(sql1)
            ranked == {i \in 1..Len(lines) : SectionOf(lines, i) # 0}
        IN  /\ SectionOf(lines, 1) = 1
            /\ \A i, j \in ranked : i < j => SectionOf(lines, i) <= SectionOf(lines, j)
            /\ \A h \in SectionHeadings :
                  Cardinality({i \in 1..Len(sql1) : sql1[i] = h}) <= 1
            /\ input.dialect = "mysql" =>
                  \A i \in ranked : SectionOf(lines, i) \notin {2, 3}

\* a compiled postgresql schema that has all eight sections
C19_Witness ==
    /\ pc = "once"
    /\ input.dialect = "postgresql"
    /\ {SectionOf(Lines(sql1), i) : i \in 1..Len(Lines(sql1))} = 0..8

-----------------------------------------------------------------------------
NameCharacters == LowerLetters \cup UpperLetters \cup Digits \cup {"_"}
LabelCharacters == NameCharacters \cup {" "}

\* the label of a relationship line: what stands between the double quotes
LabelOf(line) == SubSeq(line, IndexOf(line, " : ") + 2, Len(line) - 1)

\* the entity name of the line that opens an entity block
IsEntityLine(line) == Len(line) >= 2 /\ line[1] = "    " /\ line[Len(line)] = " {"
EntityOf(line) == SubSeq(line, 2, Len(line) - 1)

\* the column name of a line of an entity block: it follows the type and a
\* space, and ends the line or is followed by the markers
IsColumnLine(line) == Len(line) >= 3 /\ line[1] = "        "
ColumnOf(line) ==
    LET rest == SubSeq(line, 4, Len(line))
    IN  IF " " \in Range(rest) THEN SubSeq(rest, 1, IndexOf(rest, " ") - 1) ELSE rest

(* C20 as stated: in the diagram every entity name and column name is made *)
(* of characters in [A-Za-z0-9_] only, and every relationship label, taken *)
(* from the relationship's name, generated as source_to_target or inferred *)
(* as has_table, is made of letters, digits, underscores and spaces only.  *)
C20_DiagramNamesSanitized ==
    pc # "new" =>
        LET lines == Lines(mermaid1)
        IN  \A i \in 1..Len(lines) :
                /\ IsEntityLine(lines[i]) => Range(EntityOf(lines[i])) \subseteq NameCharacters
                /\ IsColumnLine(lines[i]) => Range(ColumnOf(lines[i])) \subseteq NameCharacters
                /\ IsRelationshipLine(lines[i]) =>
                      /\ \A end \in Ends(lines[i]) : Range(end) \subseteq NameCharacters
                      /\ Range(LabelOf(lines[i])) \subseteq LabelCharacters

-----------------------------------------------------------------------------
\* the relationship lines of a diagram that follow those of the n explicit
\* relationships: the lines inferred from foreign keys
InferredLines(lines, n) ==
    LET rl == SelectSeq([i \in 1..Len(lines) |-> i], LAMBDA i : IsRelationshipLine(lines[i]))
    IN  [k \in 1..(Len(rl) - n) |-> lines[rl[n + k]]]

\* the line that draws a foreign key of table owner referencing table ref
InferredLineOf(owner, ref) ==
    <<"    ">> \o sanitizeName(ref) \o <<" ", "||", "--", "o{", " ">> \o sanitizeName(owner)
    \o <<" : ", DQ, "h", "a", "s", "_">> \o owner \o <<DQ>>

\* the unordered pair of tables x and y is the pair of the ends a and b
SamePair(x, y, a, b) == (x = a /\ y = b) \/ (x = b /\ y = a)

\* the positions, in table and declaration order, of the foreign keys of s
\* that are the first to connect their pair of tables, no explicit
\* relationship covering the pair
FirstUncovered(s) ==
    LET pairs == fkPairs(s)
    IN  SelectSeq([i \in 1..Len(pairs) |-> i], LAMBDA i :
            /\ \A r \in 1..Len(s.relationships) :
                  ~SamePair(pairs[i].owner, pairs[i].ref,
                            s.relationships[r].sourceTable, s.relationships[r].targetTable)
            /\ \A j \in 1..(i - 1) :
                  ~SamePair(pairs[i].owner, pairs[i].ref, pairs[j].owner, pairs[j].ref))

(* C21 as stated: the inferred lines of the diagram are exactly one line   *)
(* per unordered pair of tables that a foreign key connects and no         *)
(* explicit relationship covers, drawn from the referenced table to the    *)
(* owning table of the first such foreign key in table and declaration     *)
(* order.                                                                  *)
C21_OneInferredLinePerPair ==
    pc # "new" =>
        LET pairs == fkPairs(input)
            first == FirstUncovered(input)
        IN  InferredLines(Lines(mermaid1), Len(input.relationships)) =
                [k \in 1..Len(first) |->
                    InferredLineOf(pairs[first[k]].owner, pairs[first[k]].ref)]

-----------------------------------------------------------------------------
(* C22: at most one of selectedTableId and selectedRelationshipId is set   *)
(* in every state of the store; selectTable clears the relationship        *)
(* selection, selectRelationship clears the table selection, clearSchema   *)
(* clears both, and no other action writes either.                         *)
C22_AtMostOneSelection ==
    /\ [](selectedTableId = 0 \/ selectedRelationshipId = 0)
    /\ [][/\ SelectTable => selectedRelationshipId' = 0
          /\ SelectRelationship => selectedTableId' = 0
          /\ ClearSchema => selectedTableId' = 0 /\ selectedRelationshipId' = 0
          /\ (\/ selectedTableId' # selectedTableId
              \/ selectedRelationshipId' # selectedRelationshipId)
             => (SelectTable \/ SelectRelationship \/ ClearSchema)]_vars

\* a table is selected at a moment the store holds a schema with a
\* relationship: the selection has had a relationship to replace
C22_Witness ==
    /\ selectedTableId = 1
    /\ selectedRelationshipId = 0
    /\ schema # <<>>
    /\ Len(schema[1].relationships) > 0

-----------------------------------------------------------------------------
(* C23 as stated: in every state of the store selectedTableId is null or   *)
(* the id of a table of the current schema, and selectedRelationshipId is  *)
(* null or the id of a relationship of the current schema.                 *)
C23_SelectionExists ==
    /\ selectedTableId # 0 =>
          /\ schema # <<>>
          /\ \E i \in 1..Len(schema[1].tables) : schema[1].tables[i].id = selectedTableId
    /\ selectedRelationshipId # 0 =>
          /\ schema # <<>>
          /\ \E i \in 1..Len(schema[1].relationships) :
                schema[1].relationships[i].id = selectedRelationshipId

-----------------------------------------------------------------------------
\* a step of one of the edit actions of the store
EditStep ==
    \/ UpdateSchema \/ HandleDialectChange
    \/ AddTable \/ UpdateTable \/ DeleteTable
    \/ AddColumn \/ UpdateColumn \/ DeleteColumn
    \/ AddIndex \/ DeleteIndex
    \/ AddForeignKey \/ DeleteForeignKey
    \/ AddRelationship \/ UpdateRelationship \/ DeleteRelationship \/ ChangeCardinality
    \/ AddStoredProcedure \/ UpdateStoredProcedure \/ DeleteStoredProcedure
    \/ Recompile

(* C24: while schema is null both outputs are empty, and every edit action *)
(* leaves every field of the store unchanged.                              *)
C24_EditsOfNullSchema ==
    /\ [](schema = <<>> => compiledSQL = <<>> /\ compiledMermaid = <<>>)
    /\ [][(schema = <<>> /\ EditStep) => UNCHANGED storeFields]_vars

\* the dialect selector was set to mysql and the store holds no schema: the
\* setDialect of that change, or an edit after it, met a null schema
C24_Witness ==
    /\ schema = <<>>
    /\ dialect = "mysql"
    /\ compiledSQL = <<>>
    /\ compiledMermaid = <<>>
    /\ error = <<>>
    /\ now = MaxTime

-----------------------------------------------------------------------------
-----------------------------------------------------------------------------
-----------------------------------------------------------------------------
(* C27 as stated: the junction descriptor that changeCardinality(id,       *)
(* many-to-many) produces has a sourceColumn and a targetColumn that       *)
(* differ, so that the junction table compileSQL emits for it has two      *)
(* distinct key columns, a relationship of a table with itself included.   *)
C27_DistinctJunctionColumns ==
    [][\A id \in {1, 7} :
          (/\ Edit(changeCardinality(id, "many-to-many"))
           /\ schema # <<>>
           /\ \E i \in 1..Len(schema[1].relationships) : schema[1].relationships[i].id = id)
          => \A i \in 1..Len(schema'[1].relationships) :
                LET rel == schema'[1].relationships[i]
                    lines == Lines(compiledSQL')
                    at == LinesStarting(lines, JunctionCreateLineOf(schema'[1].dialect, rel))
                IN  rel.id = id =>
                       /\ Len(rel.junctionTable) = 1
                       /\ rel.junctionTable[1].sourceColumn # rel.junctionTable[1].targetColumn
                       /\ Len(at) > 0
                       /\ lines[at[1] + 1] # lines[at[1] + 2]]_vars

-----------------------------------------------------------------------------
(* C28 as stated: in postgresql output the type name table_column_enum of  *)
(* every enum column, a column without enum values included, is declared   *)
(* by a CREATE TYPE statement that precedes the CREATE TABLE statement     *)
(* whose column line uses it.                                              *)
C28_EnumTypesDeclared ==
    (pc # "new" /\ input.dialect = "postgresql") =>
        LET lines == Lines(sql1)
            creates == CreateLines(lines)
        IN  \A k \in 1..Len(input.tables) : \A j \in 1..Len(input.tables[k].columns) :
                LET table == input.tables[k]
                    col == table.columns[j]
                    typeName == table.name \o <<"_">> \o col.name \o <<"_", "e", "n", "u", "m">>
                IN  col.type = "enum" =>
                       /\ Contains(lines[creates[k] + j], <<" ">> \o typeName)
                       /\ \E l \in 1..(creates[k] - 1) :
                             StartsWith(lines[l],
                                        <<"CREATE TYPE ">> \o typeName \o <<" AS ENUM (">>)

-----------------------------------------------------------------------------
\* the table name a CREATE TABLE line declares: what stands between the
\* keyword and the opening parenthesis
DeclaredName(line) == SubSeq(line, 2, Len(line) - 1)

(* C29 as stated: the REFERENCES clause of every ALTER TABLE foreign-key   *)
(* statement names the referenced table exactly as that table's CREATE     *)
(* TABLE statement does, namespace qualifier included.                     *)
C29_ReferencesUseDeclaredName ==
    pc # "new" =>
        LET lines == Lines(sql1)
            creates == CreateLines(lines)
            alters == AlterLines(lines)
            pairs == fkPairs(input)
        IN  /\ Len(alters) = Len(pairs)
            /\ \A m \in 1..Len(pairs) : \A k \in 1..Len(input.tables) :
                  input.tables[k].name = pairs[m].ref =>
                      StartsWith(lines[alters[m] + 3],
                                 <<"  REFERENCES ">> \o DeclaredName(lines[creates[k]])
                                 \o <<" (">>)

-----------------------------------------------------------------------------
\* every foreign key of s references a table of s
ForeignKeysResolve(s) ==
    \A k \in 1..Len(s.tables) : \A f \in 1..Len(s.tables[k].foreignKeys) :
        \E t \in 1..Len(s.tables) :
            s.tables[t].name = s.tables[k].foreignKeys[f].referencedTable

(* C30 as stated: the schemas the store starts from have no foreign key to *)
(* a missing table, and after deleteTable no remaining table has a foreign *)
(* key whose referencedTable names a table that no longer exists, so no    *)
(* REFERENCES line of the compiled SQL names a missing table.              *)
C30_NoDanglingForeignKeys ==
    /\ \A g \in GeneratedSchemas : ForeignKeysResolve(g)
    /\ [][(DeleteTable /\ schema # <<>> /\ ForeignKeysResolve(schema[1])) =>
             /\ ForeignKeysResolve(schema'[1])
             /\ LET lines == Lines(compiledSQL')
                    refs == LinesStarting(lines, <<"  REFERENCES ">>)
                IN  \A r \in 1..Len(refs) : \E t \in 1..Len(schema'[1].tables) :
                        StartsWith(lines[refs[r]],
                                   <<"  REFERENCES ">>
                                   \o quote(schema'[1].dialect, schema'[1].tables[t].name)
                                   \o <<" (">>)]_vars


====
